---- MODULE Spec2Model ----
(***************************************************************************)
(* Space-creation pipeline of src/src/utils.py and                         *)
(* src/src/space_analysis.py: velocity derivation, run detection, Voronoi  *)
(* areas, possession-aware run analysis and trajectory grouping.           *)
(*                                                                         *)
(* Every function of the pipeline is a call: `args` holds the arguments of *)
(* the call in progress, `pc` its position, `local` the locals of a loop   *)
(* that is modelled step by step, and `ret` what the call returned (or the *)
(* exception it raised).  One specification per function draws the         *)
(* arguments from bounded sets.                                            *)
(***************************************************************************)
EXTENDS Integers, Sequences, FiniteSets, TLC

\* qhull: what scipy.spatial.Voronoi answers for the points of each frame.
VARIABLES pc, args, local, ret, qhull

vars == <<pc, args, local, ret, qhull>>

\* ------------------------------------------------------------------ bounds
\* Highest frame number of the kinematics and run-detection tables.
MaxFrame == 2
\* Longest tracking table given to calculate_velocity.
MaxRows == 3

\* ----------------------------------------------------------------- values
\* An optional value: None, or Some(v).
None == <<>>
Some(v) == <<v>>
\* What a call produced: nothing yet, a returned value, or a raised exception.
NoValue == [kind |-> "none"]
Return(v) == [kind |-> "return", value |-> v]
Raise(e) == [kind |-> "raise", exc |-> e]
Players == {1, 2}

\* A timestamp string "H:MM:SS.fff", held as its fields <<H, MM, SS, fff>>.
Timestamps == {<<0, 0, 0, 0>>, <<0, 0, 0, 100>>}

\* pd.to_timedelta(ts).dt.total_seconds(), in milliseconds.
total_seconds(ts) == ((ts[1] * 60 + ts[2]) * 60 + ts[3]) * 1000 + ts[4]

\* A float that is the quotient sqrt(dist2) / dt of a distance in metres and
\* a time in milliseconds: dt = 0 with dist2 > 0 is inf, 0/0 is NaN.
NaN == [dist2 |-> 0, dt |-> 0]
Float(v) == [dist2 |-> v * v, dt |-> IF v < 0 THEN -1000 ELSE 1000]
isna(v) == v.dist2 = 0 /\ v.dt = 0
isinf(v) == v.dist2 > 0 /\ v.dt = 0
isneg(v) == v.dist2 > 0 /\ v.dt < 0
iszero(v) == v.dist2 = 0 /\ v.dt # 0

\* v >= t for a float v and a number t >= 0 of metres per second.
FloatGE(v, t) ==
    IF isna(v) \/ isneg(v) THEN FALSE
    ELSE IF isinf(v) THEN TRUE
    ELSE IF iszero(v) THEN t = 0
    ELSE v.dist2 * 1000000 >= t * t * v.dt * v.dt

\* a <= b for two floats, neither NaN: negative < zero < positive < inf.
FloatRank(v) == IF isneg(v) THEN 0 ELSE IF iszero(v) THEN 1 ELSE IF isinf(v) THEN 3 ELSE 2
FloatLE(a, b) ==
    \/ FloatRank(a) < FloatRank(b)
    \/ FloatRank(a) = FloatRank(b) /\ FloatRank(a) \in {1, 3}
    \/ FloatRank(a) = 2 /\ FloatRank(b) = 2
         /\ a.dist2 * b.dt * b.dt <= b.dist2 * a.dt * a.dt
    \/ FloatRank(a) = 0 /\ FloatRank(b) = 0
         /\ a.dist2 * b.dt * b.dt >= b.dist2 * a.dt * a.dt

\* ---------------------------------------------------------------- sorting
\* Key order of sort_values(["player_id", "frame"]).
KeyLE(a, b) ==
    \/ a.player_id < b.player_id
    \/ a.player_id = b.player_id /\ a.frame <= b.frame

\* The place of row i in the sorted table: after the rows of smaller key and
\* the earlier rows of equal key (a stable sort).
Place(df, i) ==
    Cardinality({j \in 1..Len(df) :
        IF KeyLE(df[i], df[j]) THEN KeyLE(df[j], df[i]) /\ j <= i ELSE TRUE})

\* df.sort_values(["player_id", "frame"]): a stable sort, rows of equal key
\* keep their order.
sort_values(df) ==
    IF df = <<>> THEN <<>>
    ELSE LET place == <<>> \o [i \in 1..Len(df) |-> Place(df, i)]
         IN  [k \in 1..Len(df) |-> df[CHOOSE i \in 1..Len(df) : place[i] = k]]

Range(s) == {s[i] : i \in 1..Len(s)}

\* A DataFrame: its column names and its rows in order, each row a record
\* with one field per column.
DataFrame(cols, rows) == [columns |-> cols, rows |-> rows]

\* ------------------------------------------------------ calculate_velocity
\* A diff over the whole table instead of per player group.
FirstOfTable(df, i) == i = 1

\* Row i of the sorted table is the first of its player group.
FirstOfGroup(df, i) == i = 1 \/ df[i - 1].player_id # df[i].player_id

\* df.groupby("player_id")[x].diff() and [y].diff(), squared and summed:
\* the squared distance to the previous row of the same player.
distance2(df, i) ==
    (df[i].x - df[i - 1].x) * (df[i].x - df[i - 1].x)
    + (df[i].y - df[i - 1].y) * (df[i].y - df[i - 1].y)

\* total_seconds().diff(): the time since the previous row of the table,
\* whichever player that row belongs to.
time_delta(df, i) == total_seconds(df[i].timestamp) - total_seconds(df[i - 1].timestamp)

\* distance / time_delta of row i, NaN where the distance or the time delta
\* is NaN (no previous row).
velocity_raw(df, i) ==
    IF FirstOfGroup(df, i) THEN NaN
    ELSE [dist2 |-> distance2(df, i), dt |-> time_delta(df, i)]

\* Series.fillna(0): NaN becomes 0, every other value is kept.
fillna(v) == IF isna(v) THEN Float(0) ELSE v

\* The row with its velocity: every column of the input row is kept.
WithVelocity(r, v) ==
    [c \in DOMAIN r \cup {"velocity"} |-> IF c = "velocity" THEN v ELSE r[c]]

calculate_velocity(df, player_id) ==
    LET sel == IF player_id = None THEN df.rows
               ELSE SelectSeq(df.rows, LAMBDA r : r.player_id = player_id[1])
        sorted == sort_values(sel)
    IN  DataFrame(df.columns \cup {"velocity"},
                  [i \in 1..Len(sorted) |->
                      WithVelocity(sorted[i], fillna(velocity_raw(sorted, i)))])

\* ------------------------------------------------------------ input tables
Positions == {<<0, 0>>, <<3, 4>>}

TrackingRows ==
    {[frame |-> f, timestamp |-> t, player_id |-> p, x |-> xy[1], y |-> xy[2]] :
        f \in 1..MaxFrame, t \in Timestamps, p \in Players, xy \in Positions}

\* At most one sample per (frame, player_id) pair.
UniqueKeys(df) ==
    \A i, j \in 1..Len(df) :
        (df[i].player_id = df[j].player_id /\ df[i].frame = df[j].frame) => i = j

TrackingColumns == {"frame", "timestamp", "player_id", "x", "y"}

\* The tracking table of the given rows.
TrackingTable(rows) == DataFrame(TrackingColumns, rows)

\* ------------------------------------------------- kinematics specification
VelInit ==
    /\ pc = "calculate_velocity"
    /\ \E n \in 0..MaxRows :
          \E rows \in [1..n -> TrackingRows], p \in {None} \cup {Some(q) : q \in Players} :
            /\ UniqueKeys(rows)
            /\ args = [df |-> TrackingTable(rows), player_id |-> p]
    /\ local = NoValue
    /\ ret = NoValue
    /\ qhull = NoValue

CalculateVelocity ==
    /\ pc = "calculate_velocity"
    /\ ret' = Return(calculate_velocity(args.df, args.player_id))
    /\ pc' = "done"
    /\ UNCHANGED <<args, local, qhull>>

VelNext == CalculateVelocity

SpecVel == VelInit /\ [][VelNext]_vars

\* ------------------------------------------------------------- detect_runs
\* Defaults of detect_runs(df, velocity_threshold=5.0, min_duration=3.0).
DefaultVelocityThreshold == 5
DefaultMinDuration == 3
\* (frame_gap > 1) starts a new run.
RunGap == 1

\* What the callee sees for an argument that may be left out.
OrDefault(arg, default) == IF arg = None THEN default ELSE arg[1]

\* The column check left out.
NeverMissing(df) == FALSE

\* "velocity" not in df.columns
MissingVelocity(df) == "velocity" \notin df.columns

\* Every frame step above 1 starts a new run, whatever the gap.
NewRunUnlessAdjacent(t, i, gap) == ~FirstOfGroup(t, i) /\ t[i].frame - t[i - 1].frame > 1

\* Row i of the sorted table starts a new run: its frame is more than `gap`
\* after the previous row of the same player (the diff of a group's first
\* row is NaN, and NaN > gap is False).
NewRun(t, i, gap) == ~FirstOfGroup(t, i) /\ t[i].frame - t[i - 1].frame > gap

\* (frame_gap > gap).cumsum(): one counter over the whole sorted table.
run_id(t, i, gap) == Cardinality({j \in 1..i : NewRun(t, j, gap)})

\* Grouped by the counter alone: all rows with the run_id of row i.
CounterGroup(t, i, gap) == {j \in 1..Len(t) : run_id(t, j, gap) = run_id(t, i, gap)}

\* Grouped by player alone: all rows of the player of row i.
PlayerGroup(t, i, gap) == {j \in 1..Len(t) : t[j].player_id = t[i].player_id}

\* The rows in the groupby(["player_id", "run_id"]) group of row i.
RunGroup(t, i, gap) ==
    {j \in 1..Len(t) :
        t[j].player_id = t[i].player_id /\ run_id(t, j, gap) = run_id(t, i, gap)}

Min(S) == CHOOSE x \in S : \A y \in S : x <= y
Max(S) == CHOOSE x \in S : \A y \in S : y <= x

\* df["col"] = ...: the statements that assign a column into the bound table.
ColumnAssignments ==
    {"x_diff", "y_diff", "distance", "time_delta", "velocity", "fillna", "frame_gap",
     "frame_diff", "run_id"}

\* The column a statement assigns.
AssignedColumn(stmt) == IF stmt = "fillna" THEN "velocity" ELSE stmt

\* The value a statement assigns to row i of the table t (the distance is
\* held squared).
AssignedValue(stmt, t, i, gap) ==
    IF stmt = "x_diff" THEN (IF FirstOfGroup(t, i) THEN None ELSE Some(t[i].x - t[i - 1].x))
    ELSE IF stmt = "y_diff" THEN (IF FirstOfGroup(t, i) THEN None ELSE Some(t[i].y - t[i - 1].y))
    ELSE IF stmt = "distance" THEN (IF FirstOfGroup(t, i) THEN None ELSE Some(distance2(t, i)))
    ELSE IF stmt = "time_delta" THEN (IF i = 1 THEN None ELSE Some(time_delta(t, i)))
    ELSE IF stmt = "velocity" THEN velocity_raw(t, i)
    ELSE IF stmt = "fillna" THEN fillna(t[i].velocity)
    ELSE IF stmt = "run_id" THEN run_id(t, i, gap)
    ELSE (IF FirstOfGroup(t, i) THEN None ELSE Some(t[i].frame - t[i - 1].frame))

\* The table with the column assigned (t: the rows of df, computed once).
WithColumn(df, stmt, gap) ==
    CHOOSE assigned \in
        {DataFrame(df.columns \cup {AssignedColumn(stmt)},
             <<>> \o [i \in 1..Len(t) |->
                 [c \in DOMAIN t[i] \cup {AssignedColumn(stmt)} |->
                     IF c = AssignedColumn(stmt) THEN AssignedValue(stmt, t, i, gap)
                     ELSE t[i][c]]]) : t \in {<<>> \o df.rows}} : TRUE

\* The columns are left in the table.
NothingDropped(df, cols) == df

\* df.drop(cols, axis=1)
Dropped(df, cols) ==
    DataFrame(df.columns \ cols,
              [i \in 1..Len(df.rows) |-> [c \in DOMAIN df.rows[i] \ cols |-> df.rows[i][c]]])

\* end_time - start_time of the run of row i, in milliseconds.
duration(t, i) ==
    total_seconds(t[Max(RunGroup(t, i, RunGap))].timestamp)
    - total_seconds(t[Min(RunGroup(t, i, RunGap))].timestamp)

\* A strict comparison in place of >=.
LongerRun(t, i, min_duration) == duration(t, i) > min_duration * 1000

\* The rows of valid runs: duration >= min_duration (seconds).
ValidRun(t, i, min_duration) == duration(t, i) >= min_duration * 1000

\* The indices of s that satisfy Keep, in order.
RECURSIVE SelectIndices(_, _, _)
SelectIndices(n, Keep, acc) ==
    IF n = 0 THEN acc
    ELSE SelectIndices(n - 1, Keep, IF n \in Keep THEN <<n>> \o acc ELSE acc)

\* high_speed.merge(valid_runs, on=["player_id", "run_id"], how="inner"): the
\* rows of the valid runs, in the order of high_speed.
merge_valid(high_speed, min_duration) ==
    LET valid == {i \in 1..Len(high_speed) : ValidRun(high_speed, i, min_duration)}
        kept == SelectIndices(Len(high_speed), valid, <<>>)
    IN  [k \in 1..Len(kept) |-> high_speed[kept[k]]]

detect_runs(df, velocity_threshold, min_duration) ==
    IF MissingVelocity(df) THEN Raise("ValueError")
    ELSE IF "velocity" \notin df.columns THEN Raise("KeyError")
    ELSE
      LET fast ==
              DataFrame(df.columns,
                  sort_values(SelectSeq(df.rows,
                      LAMBDA r : FloatGE(r.velocity, velocity_threshold))))
      \* high_speed: the sorted table with frame_gap and run_id assigned
      IN  CHOOSE runs \in
              {Return(Dropped(DataFrame(high_speed.columns,
                                        merge_valid(high_speed.rows, min_duration)),
                              {"frame_gap", "run_id"})) :
                  high_speed \in {WithColumn(WithColumn(fast, "frame_gap", RunGap),
                                             "run_id", RunGap)}} : TRUE

\* ---------------------------------------------------- run-detection inputs
\* Highest frame number of the generated run-detection tables.
MaxDetFrame == 3

Velocities == {Float(3), Float(6)}

\* Milliseconds between two frames: 10 Hz tracking, and a slow feed.
FrameSteps == {100, 2000}

FrameTimestamp(f, step) == <<0, 0, (f * step) \div 1000, (f * step) % 1000>>

KinematicsColumns == {"frame", "timestamp", "player_id", "velocity"}

KinematicsRow(p, f, v, step) ==
    [frame |-> f, timestamp |-> FrameTimestamp(f, step), player_id |-> p, velocity |-> v]

\* The (frame, player) pairs in the order get_tracking_dataframe emits rows:
\* frame by frame, the players of one frame together.
FrameMajorOf(maxFrame, players) ==
    [k \in 1..(maxFrame * Cardinality(players)) |->
        <<((k - 1) \div Cardinality(players)) + 1, ((k - 1) % Cardinality(players)) + 1>>]
FrameMajor(maxFrame) == FrameMajorOf(maxFrame, Players)

\* The table with a row for every (frame, player) that has a velocity in cells.
KinematicsRows(cells, maxFrame, step) ==
    LET present == SelectSeq(FrameMajor(maxFrame), LAMBDA k : cells[k] # None)
    IN  [i \in 1..Len(present) |->
            KinematicsRow(present[i][2], present[i][1], cells[present[i]][1], step)]

Reverse(s) == [i \in 1..Len(s) |-> s[Len(s) + 1 - i]]

WithoutVelocity(r) == [frame |-> r.frame, timestamp |-> r.timestamp, player_id |-> r.player_id]

\* Speeds [0, 3, 6, 7, 2] of one player on five consecutive frames.
ScenarioSpeeds == <<0, 3, 6, 7, 2>>
ScenarioRows(step) ==
    [i \in 1..Len(ScenarioSpeeds) |-> KinematicsRow(1, i, Float(ScenarioSpeeds[i]), step)]

\* What a (frame, player) cell of a generated table holds: no row, or a row
\* with one of the speeds.
KinematicsCells == [(1..MaxDetFrame) \X Players -> {None} \cup {Some(v) : v \in Velocities}]

\* The table of the rows, in their order or reversed, with or without the
\* velocity column.
KinematicsTable(rows, reversed, velocity) ==
    LET ordered == IF reversed THEN Reverse(rows) ELSE rows
    IN  IF velocity THEN DataFrame(KinematicsColumns, ordered)
        ELSE DataFrame(KinematicsColumns \ {"velocity"},
                       [i \in 1..Len(ordered) |-> WithoutVelocity(ordered[i])])

\* ---------------------------------------------- run-detection specification
DetectInit ==
    /\ pc = "detect_runs"
    /\ \E step \in FrameSteps, velocity \in BOOLEAN,
          vt \in {None, Some(7)}, md \in {None, Some(0)} :
            \/ args = [df |-> KinematicsTable(ScenarioRows(step), FALSE, velocity),
                       velocity_threshold |-> vt, min_duration |-> md]
            \/ \E cells \in KinematicsCells, reversed \in BOOLEAN :
                  args = [df |-> KinematicsTable(KinematicsRows(cells, MaxDetFrame, step),
                                                 reversed, velocity),
                          velocity_threshold |-> vt, min_duration |-> md]
    /\ local = NoValue
    /\ ret = NoValue
    /\ qhull = NoValue

DetectRuns ==
    /\ pc = "detect_runs"
    /\ ret' = detect_runs(args.df,
                          OrDefault(args.velocity_threshold, DefaultVelocityThreshold),
                          OrDefault(args.min_duration, DefaultMinDuration))
    /\ pc' = "done"
    /\ UNCHANGED <<args, local, qhull>>

DetectNext == DetectRuns

SpecDetect == DetectInit /\ [][DetectNext]_vars

\* ------------------------------------------------- calculate_voronoi_areas
\* Defaults of calculate_voronoi_areas(df, frame_number, pitch_length=105,
\* pitch_width=68).
DefaultPitchLength == 105
DefaultPitchWidth == 68
\* len(frame_df) < 4
MinFramePlayers == 4

\* An area, the float num / den with den > 0.
Rat(n, d) == [num |-> n, den |-> d]
RatLE(a, b) == a.num * b.den <= b.num * a.den
RatLT(a, b) == a.num * b.den < b.num * a.den
RatEQ(a, b) == a.num * b.den = b.num * a.den
RatSub(a, b) == Rat(a.num * b.den - b.num * a.den, a.den * b.den)
RatAdd(a, b) == Rat(a.num * b.den + b.num * a.den, a.den * b.den)

Abs(n) == IF n < 0 THEN -n ELSE n

\* np.dot(x, np.roll(y, 1)) - np.dot(y, np.roll(x, 1)) over the vertices v.
RECURSIVE ShoelaceSum(_, _)
ShoelaceSum(v, i) ==
    IF i = 0 THEN 0
    ELSE LET prev == IF i = 1 THEN Len(v) ELSE i - 1
         IN  v[i][1] * v[prev][2] - v[i][2] * v[prev][1] + ShoelaceSum(v, i - 1)

\* 0.5 * np.abs(...): the polygon area by the shoelace formula.
shoelace(v) == Rat(Abs(ShoelaceSum(v, Len(v))), 2)

\* The area of a cell without the cap (min(area, max_area) left out).
UncappedArea(area, max_area) == area

\* min(area, max_area)
CappedArea(area, max_area) == IF RatLE(area, max_area) THEN area ELSE max_area

\* The whole pitch, not divided by the number of players.
WholePitch(pitch_length, pitch_width, n) == Rat(pitch_length * pitch_width, 1)

\* pitch_length * pitch_width / len(player_ids)
FallbackArea(pitch_length, pitch_width, n) == Rat(pitch_length * pitch_width, n)

\* The area of the cell `region` (vertex indices, -1 the vertex at infinity)
\* of a diagram with vertex coordinates `vertices`, in a frame of n players.
CellArea(region, vertices, pitch_length, pitch_width, n) ==
    IF -1 \in Range(region) \/ Len(region) = 0
    THEN FallbackArea(pitch_length, pitch_width, n)
    ELSE IF Len(region) >= 3
    THEN CappedArea(shoelace([k \in 1..Len(region) |-> vertices[region[k]]]),
                    Rat(pitch_length * pitch_width, 1))
    ELSE FallbackArea(pitch_length, pitch_width, n)

\* The row-count guard off by one.
TooFewPlayers3(frame_df) == Len(frame_df) < MinFramePlayers - 1

\* len(frame_df) < 4
TooFewPlayers(frame_df) == Len(frame_df) < MinFramePlayers

\* df[df["frame"] == frame_number]
FrameRows(df, frame_number) == SelectSeq(df.rows, LAMBDA r : r.frame = frame_number)

\* The dict player_id -> area: a later row of a player overwrites an earlier.
AreasDict(frame_df, area) ==
    [p \in {frame_df[i].player_id : i \in 1..Len(frame_df)} |->
        area[Max({i \in 1..Len(frame_df) : frame_df[i].player_id = p})]]

EmptyDict == <<>>

\* vor is what Voronoi(points) does for the points of the frame: the string
\* "QhullError" (the exception it raises), or the diagram it returns.
calculate_voronoi_areas(df, frame_number, pitch_length, pitch_width, vor) ==
    LET frame_df == FrameRows(df, frame_number)
    IN  IF TooFewPlayers(frame_df) THEN EmptyDict
        ELSE IF vor.kind = "QhullError" THEN EmptyDict
        ELSE AreasDict(frame_df,
                 [i \in 1..Len(frame_df) |->
                     CellArea(vor.regions[vor.point_region[i]], vor.vertices,
                              pitch_length, pitch_width, Len(frame_df))])

\* ------------------------------------------------ scipy.spatial.Voronoi
\* The points of a row sequence: frame_df[["x", "y"]].values.
Points(frame_df) == [i \in 1..Len(frame_df) |-> <<frame_df[i].x, frame_df[i].y>>]

Cross(a, b, c) == (b[1] - a[1]) * (c[2] - a[2]) - (b[2] - a[2]) * (c[1] - a[1])

\* All points on one line (or fewer than three distinct points): Qhull cannot
\* build its initial simplex and Voronoi raises QhullError.
Collinear(points) ==
    \A i, j, k \in 1..Len(points) : Cross(points[i], points[j], points[k]) = 0

\* Vertex coordinates a diagram may hold: a small triangle inside the pitch
\* and a quadrilateral far larger than the pitch.
DiagramVertices ==
    <<<<0, 0>>, <<4, 0>>, <<0, 3>>,
      <<-100, -100>>, <<100, -100>>, <<100, 100>>, <<-100, 100>>>>

\* The regions of a diagram: the empty region, an unbounded region, a region
\* of two vertices, a bounded triangle, a bounded cell larger than the pitch.
DiagramRegions ==
    <<<<>>, <<-1, 1, 2>>, <<1, 2>>, <<1, 2, 3>>, <<4, 5, 6, 7>>>>

QhullError == [kind |-> "QhullError"]

\* The diagram that assigns point i the region point_region[i].
Diagram(point_region) ==
    [kind |-> "diagram", vertices |-> DiagramVertices, regions |-> DiagramRegions,
     point_region |-> point_region]

\* p lies on the closed segment from a to b.
OnSegment(p, a, b) ==
    /\ Cross(a, b, p) = 0
    /\ Min({a[1], b[1]}) <= p[1] /\ p[1] <= Max({a[1], b[1]})
    /\ Min({a[2], b[2]}) <= p[2] /\ p[2] <= Max({a[2], b[2]})

\* p lies in the closed triangle a, b, c.
InTriangle(p, a, b, c) ==
    /\ Cross(a, b, c) # 0
    /\ \/ Cross(a, b, p) >= 0 /\ Cross(b, c, p) >= 0 /\ Cross(c, a, p) >= 0
       \/ Cross(a, b, p) <= 0 /\ Cross(b, c, p) <= 0 /\ Cross(c, a, p) <= 0

\* Point i is a corner of the convex hull of the points and no other point
\* lies on it: it is in no segment and no triangle of the other points.
HullVertex(points, i) ==
    LET others == {points[j] : j \in (1..Len(points)) \ {i}}
    IN  /\ points[i] \notin others
        /\ ~\E a, b \in others : OnSegment(points[i], a, b)
        /\ ~\E a, b, c \in others : InTriangle(points[i], a, b, c)

\* The region holds -1, the vertex outside the diagram.
Unbounded(region) == -1 \in Range(region)

\* What Voronoi(points) may do: the cell of a corner of the convex hull
\* extends to infinity, so its region is unbounded; any other point may get
\* any region.
VoronoiOutcomes(points) ==
    IF Collinear(points) THEN {QhullError}
    ELSE LET hull == {i \in 1..Len(points) : HullVertex(points, i)}
         IN  {Diagram(pr) :
                 pr \in {q \in [1..Len(points) -> 1..Len(DiagramRegions)] :
                            \A i \in hull : Unbounded(DiagramRegions[q[i]])}}

\* -------------------------------------------------- tessellation inputs
\* Most players in one frame of a generated table.
MaxFramePlayers == 4

\* Where player p stands when it is not at the origin.
Spot(p) == <<<<4, 0>>, <<0, 4>>, <<4, 4>>, <<2, 1>>, <<1, 6>>, <<6, 2>>>>[p]
Origin == <<0, 0>>

PositionRow(f, p, xy) == [frame |-> f, player_id |-> p, x |-> xy[1], y |-> xy[2]]

\* Every player is absent from the frame, at its spot, or at the origin.
Places == {"absent", "spot", "origin"}

\* The rows of frame f for the places of the players 1..n.
FrameRowsOf(f, n, place) ==
    LET present == SelectSeq([p \in 1..n |-> p], LAMBDA p : place[p] # "absent")
    IN  [i \in 1..Len(present) |->
            PositionRow(f, present[i],
                        IF place[present[i]] = "spot" THEN Spot(present[i]) ELSE Origin)]

PositionColumns == {"frame", "player_id", "x", "y"}

\* Five players at frame 100 on a convex pentagon around the origin.
PentagonFrame == 100
Pentagon == <<<<0, 10>>, <<10, 3>>, <<6, -8>>, <<-6, -8>>, <<-10, 3>>>>
PentagonRows == [p \in 1..Len(Pentagon) |-> PositionRow(PentagonFrame, p, Pentagon[p])]

\* ------------------------------------------------ tessellation specification
VoronoiInit ==
    /\ pc = "calculate_voronoi_areas"
    /\ \/ \E place \in [1..MaxFramePlayers -> Places], f \in 1..2 :
             args = [df |-> DataFrame(PositionColumns, FrameRowsOf(1, MaxFramePlayers, place)),
                     frame_number |-> f, pitch_length |-> None, pitch_width |-> None]
       \/ \E place \in [1..MaxFramePlayers -> Places] :
             args = [df |-> DataFrame(PositionColumns,
                                FrameRowsOf(1, MaxFramePlayers, place) \o PentagonRows),
                     frame_number |-> PentagonFrame,
                     pitch_length |-> None, pitch_width |-> None]
    /\ local = NoValue
    /\ ret = NoValue
    /\ qhull \in [{args.frame_number} ->
                    VoronoiOutcomes(Points(FrameRows(args.df, args.frame_number)))]

CalculateVoronoiAreas ==
    /\ pc = "calculate_voronoi_areas"
    /\ ret' = Return(calculate_voronoi_areas(args.df, args.frame_number,
                        OrDefault(args.pitch_length, DefaultPitchLength),
                        OrDefault(args.pitch_width, DefaultPitchWidth),
                        qhull[args.frame_number]))
    /\ pc' = "done"
    /\ UNCHANGED <<args, local, qhull>>

VoronoiNext == CalculateVoronoiAreas

SpecVoronoi == VoronoiInit /\ [][VoronoiNext]_vars

\* ---------------------------------------------- group_runs_to_trajectories
\* (frame_diff > 10) starts a new run.
TrajectoryGap == 10
\* len(group) < 3: the run is skipped.
MinTrajectoryRows == 3

\* The sum of f over the indices 1..n of a sequence.
RECURSIVE RatSum(_, _)
RatSum(f, n) == IF n = 0 THEN Rat(0, 1) ELSE RatAdd(RatSum(f, n - 1), f[n])

\* The indices of a group in ascending order.
GroupSeq(t, g) == SelectIndices(Len(t), g, <<>>)

\* space_created of the last row minus that of the first.
space_created_delta(t, g) == RatSub(t[Max(g)].space_created, t[Min(g)].space_created)

\* group["space_created"].sum()
space_created_sum(t, g) ==
    LET idx == GroupSeq(t, g)
    IN  RatSum([k \in 1..Len(idx) |-> t[idx[k]].space_created], Len(idx))

\* The speed of the last row of the group.
last_velocity(t, g) == t[Max(g)].velocity

\* group["velocity"].max(): NaN is skipped.
max_velocity(t, g) ==
    LET vs == {t[i].velocity : i \in g} \ {NaN}
    IN  CHOOSE v \in vs : \A w \in vs : FloatLE(w, v)

\* group["is_detected"].mean()
is_detected_mean(t, g) == Rat(Cardinality({i \in g : t[i].is_detected}), Cardinality(g))

\* The row appended for the group g of the sorted table t (avg_velocity, the
\* mean of the speeds, is not modelled: no float of the model is a sum of
\* square roots).
Trajectory(t, g) ==
    LET first == t[Min(g)]
        last == t[Max(g)]
    IN  [player_id |-> first.player_id,
         team |-> first.team,
         start_frame |-> first.frame,
         end_frame |-> last.frame,
         duration_frames |-> Cardinality(g),
         start_x |-> first.x,
         start_y |-> first.y,
         end_x |-> last.x,
         end_y |-> last.y,
         max_velocity |-> max_velocity(t, g),
         total_space_created |-> space_created_sum(t, g),
         is_detected |-> is_detected_mean(t, g)]

\* Every run is kept, however short.
KeepEveryRun(g) == FALSE

\* len(group) < 3: skip very short runs.
TooShort(g) == Cardinality(g) < MinTrajectoryRows

TrajectoryColumns ==
    {"player_id", "team", "start_frame", "end_frame", "duration_frames", "start_x",
     "start_y", "end_x", "end_y", "max_velocity", "total_space_created", "is_detected"}

\* pd.DataFrame() and pd.DataFrame([]): no rows, no columns.
EmptyFrame == DataFrame({}, <<>>)

group_runs_to_trajectories(runs_df) ==
    IF Len(runs_df.rows) = 0 THEN EmptyFrame
    ELSE
      LET t == sort_values(runs_df.rows)
          \* the first row of every (player_id, run_id) group that is kept
          starts == {i \in 1..Len(t) :
                        /\ i = Min(RunGroup(t, i, TrajectoryGap))
                        /\ ~TooShort(RunGroup(t, i, TrajectoryGap))}
          order == SelectIndices(Len(t), starts, <<>>)
      IN  IF order = <<>> THEN EmptyFrame
          ELSE DataFrame(TrajectoryColumns,
                   [k \in 1..Len(order) |->
                       Trajectory(t, RunGroup(t, order[k], TrajectoryGap))])

\* ------------------------------------------------------- run-frame tables
\* The generated run-frame tables hold frames 1..MaxRunFrame, the frame
\* TrajectoryGap after it, and the frame more than TrajectoryGap after that.
MaxRunFrame == 3

RunFrames == (1..MaxRunFrame) \cup {MaxRunFrame + TrajectoryGap}
                \cup {MaxRunFrame + 2 * TrajectoryGap + 1}

TeamOf(p) == IF p = 1 THEN "home" ELSE "away"

RunFrameColumns ==
    {"frame", "player_id", "team", "velocity", "space_created", "teammates_benefited",
     "is_detected", "x", "y"}

\* The Run-Frame Record of player p at frame f: analyze_offball_runs' row with
\* x and y merged in. uniform: every frame has the same space_created.
RunFrameRow(p, f, uniform) ==
    [frame |-> f, player_id |-> p, team |-> TeamOf(p),
     velocity |-> Float(8 + (f % 3)),
     space_created |-> IF uniform THEN Rat(5, 1) ELSE Rat(f, 1),
     teammates_benefited |-> 1,
     is_detected |-> (f % 2 = 1),
     x |-> f - 2, y |-> p]

RECURSIVE SetToSeq(_)
SetToSeq(S) == IF S = {} THEN <<>> ELSE LET x == Min(S) IN <<x>> \o SetToSeq(S \ {x})

\* Player 1's rows, then player 2's, each by ascending frame: the order of
\* analyze_offball_runs' output.
RunFrameRows(frames1, frames2, uniform) ==
    LET f1 == SetToSeq(frames1)
        f2 == SetToSeq(frames2)
    IN  [i \in 1..Len(f1) |-> RunFrameRow(1, f1[i], uniform)]
        \o [i \in 1..Len(f2) |-> RunFrameRow(2, f2[i], uniform)]

\* The table in the order of analyze_offball_runs' output, or reversed.
RunFrameTable(frames1, frames2, uniform, reversed) ==
    LET rows == RunFrameRows(frames1, frames2, uniform)
    IN  DataFrame(RunFrameColumns, IF reversed THEN Reverse(rows) ELSE rows)

\* ------------------------------------------------- grouping specification
GroupInit ==
    /\ pc = "group_runs_to_trajectories"
    /\ \E frames1 \in SUBSET RunFrames, frames2 \in SUBSET RunFrames,
          uniform \in BOOLEAN, reversed \in BOOLEAN :
            args = [runs_df |-> RunFrameTable(frames1, frames2, uniform, reversed)]
    /\ local = NoValue
    /\ ret = NoValue
    /\ qhull = NoValue

GroupRunsToTrajectories ==
    /\ pc = "group_runs_to_trajectories"
    /\ ret' = Return(group_runs_to_trajectories(args.runs_df))
    /\ pc' = "done"
    /\ UNCHANGED <<args, local, qhull>>

GroupNext == GroupRunsToTrajectories

SpecGroup == GroupInit /\ [][GroupNext]_vars

\* -------------------------------------------------- measure_space_creation
\* The sum of the values of a dict of floats.
RECURSIVE SumValues(_, _)
SumValues(d, keys) ==
    IF keys = {} THEN Rat(0, 1)
    ELSE LET k == Min(keys) IN RatAdd(d[k], SumValues(d, keys \ {k}))

\* gain >= 0: a team-mate whose area did not change counts too.
NonNegativeGain(gain) == RatLE(Rat(0, 1), gain)

\* gain > 0
PositiveGain(gain) == RatLT(Rat(0, 1), gain)

\* Only the map of the end frame is asked for the team-mate.
InEndMap(tm_id, areas_before, areas_after) == tm_id \in DOMAIN areas_after

\* tm_id in areas_before and tm_id in areas_after
InBothMaps(tm_id, areas_before, areas_after) ==
    tm_id \in DOMAIN areas_before /\ tm_id \in DOMAIN areas_after

\* calculate_voronoi_areas(df, frame) with the default pitch; vor: what
\* Voronoi does for the points of each frame.
areas_at(df, frame, vor) ==
    calculate_voronoi_areas(df, frame, DefaultPitchLength, DefaultPitchWidth, vor[frame])

\* The dict returned by measure_space_creation when it returns.
measure_space_creation(df, player_id, start_frame, end_frame, teammate_ids, vor) ==
    LET areas_before == areas_at(df, start_frame, vor)
        areas_after == areas_at(df, end_frame, vor)
        gain(tm) == RatSub(areas_after[tm], areas_before[tm])
    IN  IF areas_before = EmptyDict \/ areas_after = EmptyDict THEN EmptyDict
        ELSE [tm \in {t \in Range(teammate_ids) :
                        /\ InBothMaps(t, areas_before, areas_after)
                        /\ PositiveGain(gain(t))} |-> gain(tm)]

\* areas_after[tm_id] - areas_before[tm_id] raises KeyError when a dict read
\* lacks the key.
measure_raises(df, player_id, start_frame, end_frame, teammate_ids, vor) ==
    LET areas_before == areas_at(df, start_frame, vor)
        areas_after == areas_at(df, end_frame, vor)
    IN  /\ areas_before # EmptyDict
        /\ areas_after # EmptyDict
        /\ \E t \in Range(teammate_ids) :
              /\ InBothMaps(t, areas_before, areas_after)
              /\ (t \notin DOMAIN areas_before \/ t \notin DOMAIN areas_after)

\* ------------------------------------------------- measurement inputs
\* The tracked players of a measured table and a team-mate never tracked.
MeasurePlayers == 1..5
Untracked == Max(MeasurePlayers) + 1
MeasureFrames == 1..2

\* Who is in a frame: everybody at their spot, everybody but player 3, three
\* players only, or everybody on one line.
Layouts == {"all", "without3", "few", "line"}

MeasureRows(f, layout) ==
    LET present == SelectSeq([p \in MeasurePlayers |-> p],
                       LAMBDA p : /\ layout = "without3" => p # 3
                                  /\ layout = "few" => p <= 3)
    IN  [i \in 1..Len(present) |->
            PositionRow(f, present[i],
                        IF layout = "line" THEN <<present[i], 0>> ELSE Spot(present[i]))]

\* Frame by frame, the players of a frame together.
MeasureTable(layouts) ==
    DataFrame(PositionColumns, MeasureRows(1, layouts[1]) \o MeasureRows(2, layouts[2]))

\* The cells Voronoi gives players 2 and 3 in a frame: a small triangle, an
\* unbounded cell or an oversized one; every other cell is unbounded.
MeasureRegions == {2, 4, 5}

\* What Voronoi does for the rows of a frame.
MeasureOutcome(rows, region) ==
    IF Collinear(Points(rows)) THEN QhullError
    ELSE Diagram([i \in 1..Len(rows) |->
                     IF rows[i].player_id \in DOMAIN region THEN region[rows[i].player_id]
                     ELSE 2])

\* The team-mates asked about: tracked ones, one never tracked, none.
TeammateLists == {<<2, 3>>, <<3>>, <<2, 3, Untracked>>, <<>>}

\* ------------------------------------------------ measurement specification
\* The end frame may lie after the last frame of the table, where Voronoi has
\* no points to work on.
MeasureInit ==
    /\ pc = "measure_space_creation"
    /\ \E layouts \in [MeasureFrames -> Layouts], end \in 1..(Max(MeasureFrames) + 1),
          teammates \in TeammateLists :
            args = [df |-> MeasureTable(layouts), player_id |-> 1, start_frame |-> 1,
                    end_frame |-> end, teammate_ids |-> teammates]
    /\ local = NoValue
    /\ ret = NoValue
    /\ \E regions \in [MeasureFrames -> [{2, 3} -> MeasureRegions]] :
          qhull = [f \in 1..(Max(MeasureFrames) + 1) |->
                      IF f \in MeasureFrames
                      THEN MeasureOutcome(FrameRows(args.df, f), regions[f])
                      ELSE QhullError]

MeasureSpaceCreation ==
    /\ pc = "measure_space_creation"
    /\ ret' = IF measure_raises(args.df, args.player_id, args.start_frame, args.end_frame,
                                args.teammate_ids, qhull)
              THEN Raise("KeyError")
              ELSE Return(measure_space_creation(args.df, args.player_id, args.start_frame,
                                                 args.end_frame, args.teammate_ids, qhull))
    /\ pc' = "done"
    /\ UNCHANGED <<args, local, qhull>>

MeasureNext == MeasureSpaceCreation

SpecMeasure == MeasureInit /\ [][MeasureNext]_vars

\* ---------------------------------------------------- analyze_offball_runs
\* Defaults of analyze_offball_runs(..., velocity_threshold=5.0, window_frames=30).
DefaultAnalyzeThreshold == 5
DefaultWindowFrames == 30

\* player_to_team: the home ids are entered first, the away ids after them.
player_to_team(home_player_ids, away_player_ids) ==
    [p \in Range(home_player_ids) \cup Range(away_player_ids) |->
        IF p \in Range(away_player_ids) THEN "away" ELSE "home"]

\* dict.get(key): None for a key the dict does not hold.
Get(d, key) == IF key \in DOMAIN d THEN Some(d[key]) ELSE None

\* The check left out.
NeverHasBall(poss_player_id, player_id) == FALSE

\* poss_player_id == player_id: the runner has the ball.
RunnerHasBall(poss_player_id, player_id) == poss_player_id = player_id

\* The check left out.
NeverOtherTeam(runner_team, poss_team) == FALSE

\* runner_team != poss_team
OtherTeam(runner_team, poss_team) == runner_team # poss_team

\* A record is appended whatever was measured, with a sum of 0 for no gain.
AlwaysTruthy(space_created) == TRUE

\* if space_created: a dict is truthy when it is not empty.
Truthy(space_created) == space_created # EmptyDict

\* The runner is left in the list of team-mates.
AnyPlayer(p, player_id) == TRUE

\* [p for p in ..._player_ids if p != player_id]
NotRunner(p, player_id) == p # player_id

\* The record appended for the run row `run`, or None when the row is skipped.
RunFrameRecord(run, df, possession_df, home_player_ids, away_player_ids, window_frames, vor) ==
    LET teams == player_to_team(home_player_ids, away_player_ids)
        runner_team == Get(teams, run.player_id)
        poss_frame == SelectSeq(possession_df.rows, LAMBDA r : r.frame = run.frame)
        poss_player_id == poss_frame[1].player_id
        poss_team == Get(teams, poss_player_id[1])
        teammates ==
            SelectSeq(IF runner_team = Some("home") THEN home_player_ids
                      ELSE away_player_ids,
                      LAMBDA q : NotRunner(q, run.player_id))
        space_created ==
            measure_space_creation(df, run.player_id, run.frame,
                                   run.frame + window_frames, teammates, vor)
    IN  IF runner_team = None THEN None
        ELSE IF Len(poss_frame) = 0 THEN None
        ELSE IF poss_player_id = None THEN None
        ELSE IF RunnerHasBall(poss_player_id[1], run.player_id) THEN None
        ELSE IF poss_team = None THEN None
        ELSE IF OtherTeam(runner_team, poss_team) THEN None
        ELSE IF Len(teammates) = 0 THEN None
        ELSE IF ~Truthy(space_created) THEN None
        ELSE Some([frame |-> run.frame,
                   player_id |-> run.player_id,
                   team |-> runner_team[1],
                   velocity |-> run.velocity,
                   space_created |-> SumValues(space_created, DOMAIN space_created),
                   teammates_benefited |-> Cardinality(DOMAIN space_created),
                   is_detected |-> run.is_detected])

RunRecordColumns ==
    {"frame", "player_id", "team", "velocity", "space_created", "teammates_benefited",
     "is_detected"}

\* pd.DataFrame(results)
ResultsFrame(results) ==
    IF results = <<>> THEN EmptyFrame ELSE DataFrame(RunRecordColumns, results)

\* ------------------------------------------------------- analysis inputs
\* The frames in which a runner may run; the table holds one frame more, the
\* end of the last look-ahead window.
MaxAnalyzeFrame == 2

\* Frames ahead at which the area is measured again (window_frames).
AnalysisWindows == {1}
LastAnalysisFrame == MaxAnalyzeFrame + Max(AnalysisWindows)

AnalysisPlayers == 1..4
\* The players that may run: one of each team.
Runners == {1, 3}
\* A player id of no roster.
Stranger == Max(AnalysisPlayers) + 1

AnalysisColumns == {"frame", "timestamp", "player_id", "x", "y", "is_detected", "velocity"}

\* The row of player p at frame f, `step` milliseconds between two frames (100
\* for 10 Hz tracking, 3000 for two frames to span the minimum duration); the
\* runners move with the frame, so no two frames hold the same points.
AnalysisRow(p, f, running, step) ==
    [frame |-> f, timestamp |-> FrameTimestamp(f, step), player_id |-> p,
     x |-> Spot(p)[1] + (IF p \in Runners THEN f ELSE 0), y |-> Spot(p)[2],
     is_detected |-> TRUE,
     velocity |-> IF p \in running /\ f <= MaxAnalyzeFrame THEN Float(6) ELSE Float(0)]

\* Frame by frame, the players of a frame together; with `thin` the last
\* frame lacks its last player.
AnalysisRows(running, step, thin) ==
    LET keys == SelectSeq(FrameMajorOf(LastAnalysisFrame, AnalysisPlayers),
                    LAMBDA k : ~(thin /\ k[1] = LastAnalysisFrame
                                      /\ k[2] = Max(AnalysisPlayers)))
    IN  [i \in 1..Len(keys) |-> AnalysisRow(keys[i][2], keys[i][1], running, step)]

AnalysisTable(running, step, thin) ==
    DataFrame(AnalysisColumns, AnalysisRows(running, step, thin))

\* The calls of the analysis but for the possession table: the full 10 Hz and
\* slow tables with two players a team, and on the slow table a thin last
\* frame, a runner of no roster, a runner without team-mates, a home team of
\* three.
AnalysisCalls ==
    {[df |-> AnalysisTable(running, v.step, v.thin),
      home_player_ids |-> v.home, away_player_ids |-> v.away] :
        running \in SUBSET Runners \ {{}},
        v \in {[step |-> 3000, thin |-> FALSE, home |-> <<1, 2>>, away |-> <<3, 4>>],
                [step |-> 100, thin |-> FALSE, home |-> <<1, 2>>, away |-> <<3, 4>>],
                [step |-> 3000, thin |-> TRUE, home |-> <<1, 2>>, away |-> <<3, 4>>],
                [step |-> 3000, thin |-> FALSE, home |-> <<2>>, away |-> <<3, 4>>],
                [step |-> 3000, thin |-> FALSE, home |-> <<1>>, away |-> <<3, 4>>],
                [step |-> 3000, thin |-> FALSE, home |-> <<1, 2, 4>>, away |-> <<3>>]}}

\* Who has the ball at a frame: no record, a record without a player, or a
\* record naming a player.
Possessors == {None, Some(None), Some(Some(1)), Some(Some(2)), Some(Some(3)),
               Some(Some(Stranger))}

PossessionColumns == {"frame", "player_id"}

\* get_possession_info: at most one row per frame, in frame order.
PossessionTable(poss) ==
    LET frames == SelectSeq([f \in 1..MaxAnalyzeFrame |-> f], LAMBDA f : poss[f] # None)
    IN  DataFrame(PossessionColumns,
            [i \in 1..Len(frames) |-> [frame |-> frames[i], player_id |-> poss[frames[i]][1]]])

PossessionTables == {PossessionTable(poss) : poss \in [1..MaxAnalyzeFrame -> Possessors]}

\* The kinds of diagram Voronoi builds in the analysis.
AnalysisVariants == 1..3

\* What Voronoi does for the points of a frame in the analysis: every cell a
\* small triangle (variant 1), or the cells of the odd points unbounded and,
\* of the even points, the second oversized and the fourth small (variant 2)
\* or the second small and the fourth oversized (variant 3); with any other
\* variant the cells of all the even points are oversized. The odd frames
\* share a variant and so do the even frames, so that each cell grows,
\* shrinks or stays the same from a frame to the next.
AnalysisOutcome(points, variant) ==
    IF Collinear(points) THEN QhullError
    ELSE Diagram([i \in 1..Len(points) |->
                     IF variant = 1 THEN 4
                     ELSE IF i % 2 = 1 THEN 2
                     ELSE IF variant \notin AnalysisVariants THEN 5
                     ELSE IF (i % 4 = 2) = (variant = 2) THEN 5 ELSE 4])

\* ------------------------------------------------ analysis specification
AnalyzeInit ==
    /\ pc = "analyze_offball_runs"
    /\ local = NoValue
    /\ ret = NoValue
    /\ \E call \in AnalysisCalls :
          \E outcomes \in
                {<<>> \o [f \in 1..LastAnalysisFrame |->
                    <<>> \o [variant \in AnalysisVariants |->
                        AnalysisOutcome(Points(FrameRows(call.df, f)), variant)]]} :
             \E poss \in PossessionTables, w \in AnalysisWindows,
                odd \in AnalysisVariants, even \in AnalysisVariants :
                /\ args = [df |-> call.df, possession_df |-> poss,
                           home_player_ids |-> call.home_player_ids,
                           away_player_ids |-> call.away_player_ids,
                           velocity_threshold |-> None, window_frames |-> Some(w)]
                /\ qhull = [f \in 1..LastAnalysisFrame |->
                               outcomes[f][IF f % 2 = 1 THEN odd ELSE even]]

\* The call up to the loop: runs = detect_runs(df, velocity_threshold).
AnalyzeDetect ==
    /\ pc = "analyze_offball_runs"
    /\ LET runs == detect_runs(args.df,
                       OrDefault(args.velocity_threshold, DefaultAnalyzeThreshold),
                       DefaultMinDuration)
       IN  IF runs.kind = "raise"
           THEN /\ ret' = runs
                /\ pc' = "done"
                /\ local' = local
           ELSE /\ local' = [runs |-> runs.value.rows, idx |-> 1, results |-> <<>>]
                /\ pc' = "analyze_loop"
                /\ ret' = ret
    /\ UNCHANGED <<args, qhull>>

\* One pass of the loop over runs.iterrows().
AnalyzeRun ==
    /\ pc = "analyze_loop"
    /\ local.idx <= Len(local.runs)
    /\ LET record == RunFrameRecord(local.runs[local.idx], args.df, args.possession_df,
                         args.home_player_ids, args.away_player_ids,
                         OrDefault(args.window_frames, DefaultWindowFrames), qhull)
       IN  local' = [local EXCEPT !.idx = @ + 1,
                                  !.results = IF record = None THEN @
                                              ELSE Append(@, record[1])]
    /\ UNCHANGED <<pc, args, ret, qhull>>

\* The loop is over: return pd.DataFrame(results).
AnalyzeReturn ==
    /\ pc = "analyze_loop"
    /\ local.idx > Len(local.runs)
    /\ ret' = Return(ResultsFrame(local.results))
    /\ pc' = "done"
    /\ UNCHANGED <<args, local, qhull>>

AnalyzeNext == AnalyzeDetect \/ AnalyzeRun \/ AnalyzeReturn

SpecAnalyze == AnalyzeInit /\ [][AnalyzeNext]_vars

\* --------------------------------------------------- get_tracking_dataframe
\* The keys read from a player entry of a frame.
PlayerKeys == {"player_id", "x", "y", "is_detected"}

\* The frames get_tracking_dataframe reads for a period: those with a period,
\* equal to the one asked for.
PeriodFrames(tracking_data, period) ==
    SelectSeq(tracking_data,
              LAMBDA fd : fd.period # None /\ (period # None => fd.period[1] = period[1]))

RECURSIVE Flatten(_)
Flatten(seqs) == IF seqs = <<>> THEN <<>> ELSE Head(seqs) \o Flatten(Tail(seqs))

TrackingRow(fd, player) ==
    [frame |-> fd.frame, timestamp |-> fd.timestamp, period |-> fd.period[1],
     player_id |-> player.player_id, x |-> player.x, y |-> player.y,
     is_detected |-> player.is_detected]

FlatColumns == {"frame", "timestamp", "period", "player_id", "x", "y", "is_detected"}

\* pd.DataFrame(rows): a list of no rows makes a table of no columns.
FrameOf(columns, rows) == IF rows = <<>> THEN DataFrame({}, <<>>) ELSE DataFrame(columns, rows)

\* player["x"] and the like raise KeyError on an entry that lacks the key.
get_tracking_dataframe(tracking_data, period) ==
    LET frames == PeriodFrames(tracking_data, period)
    IN  IF \E i \in 1..Len(frames) : \E j \in 1..Len(frames[i].player_data) :
              ~(PlayerKeys \subseteq DOMAIN frames[i].player_data[j])
        THEN Raise("KeyError")
        ELSE Return(FrameOf(FlatColumns,
                 Flatten([i \in 1..Len(frames) |->
                     [j \in 1..Len(frames[i].player_data) |->
                         TrackingRow(frames[i], frames[i].player_data[j])]])))

\* ------------------------------------------------------ get_possession_info
PossessionInfoColumns == {"frame", "timestamp", "period", "player_id", "group"}

\* One row for every frame with a period and a possession entry, whatever
\* the period.
get_possession_info(tracking_data) ==
    LET frames == SelectSeq(tracking_data,
                      LAMBDA fd : fd.period # None /\ fd.possession # None)
    IN  FrameOf(PossessionInfoColumns,
            [i \in 1..Len(frames) |->
                [frame |-> frames[i].frame, timestamp |-> frames[i].timestamp,
                 period |-> frames[i].period[1],
                 player_id |-> frames[i].possession[1].player_id,
                 group |-> frames[i].possession[1].group]])

\* The values of a sequence in the order of their first appearance.
RECURSIVE Unique(_)
Unique(s) ==
    IF s = <<>> THEN <<>>
    ELSE LET rest == Unique(SubSeq(s, 1, Len(s) - 1))
         IN  IF s[Len(s)] \in Range(rest) THEN rest ELSE Append(rest, s[Len(s)])

\* list(poss_df[poss_df["group"] == group]["player_id"].dropna().astype(int).unique())
team_player_ids(poss_df, group) ==
    LET named == SelectSeq(poss_df.rows, LAMBDA r : r.group = group /\ r.player_id # None)
    IN  Unique([i \in 1..Len(named) |-> named[i].player_id[1]])

\* ------------------------------------- analyze_offball_runs as one function
RECURSIVE RunRecords(_, _, _, _, _, _, _)
RunRecords(runs, df, possession_df, home_player_ids, away_player_ids, window_frames, vor) ==
    IF runs = <<>> THEN <<>>
    ELSE LET record == RunFrameRecord(runs[Len(runs)], df, possession_df, home_player_ids,
                                      away_player_ids, window_frames, vor)
             before == RunRecords(SubSeq(runs, 1, Len(runs) - 1), df, possession_df,
                                  home_player_ids, away_player_ids, window_frames, vor)
         IN  IF record = None THEN before ELSE Append(before, record[1])

analyze_offball_runs(df, possession_df, home_player_ids, away_player_ids, velocity_threshold, window_frames, vor) ==
    LET runs == detect_runs(df, velocity_threshold, DefaultMinDuration)
    IN  IF runs.kind = "raise" THEN runs
        ELSE Return(ResultsFrame(RunRecords(runs.value.rows, df, possession_df,
                        home_player_ids, away_player_ids, window_frames, vor)))

\* runs.merge(df_vel[["frame", "player_id", "x", "y"]], on=["frame", "player_id"],
\* how="left"): every run row once for each row of df_vel with its key, and
\* once with x and y missing when there is none.
merge_coordinates(runs, df_vel) ==
    LET with_xy(r, x, y) ==
            [c \in DOMAIN r \cup {"x", "y"} |-> IF c = "x" THEN x ELSE IF c = "y" THEN y ELSE r[c]]
        matches(r) == SelectSeq(df_vel.rows,
                          LAMBDA d : d.frame = r.frame /\ d.player_id = r.player_id)
        merged(r) == IF matches(r) = <<>> THEN <<with_xy(r, None, None)>>
                     ELSE [k \in 1..Len(matches(r)) |->
                              with_xy(r, matches(r)[k].x, matches(r)[k].y)]
    IN  DataFrame(runs.columns \cup {"x", "y"},
                  Flatten([i \in 1..Len(runs.rows) |-> merged(runs.rows[i])]))

\* -------------------------------------------- analyze_all_matches_normalized
\* Default of analyze_all_matches_normalized(..., velocity_threshold=8.0).
DefaultBatchThreshold == 8

\* for period in [1, 2]
LastPeriod == 2

\* The x of the row is negated: *= -1 (no x is missing, as every run row is
\* a row of df_vel and the merge finds its coordinates).
Negated(row) == [row EXCEPT !.start_x = -@, !.end_x = -@]

\* The home team is flipped when it attacks left to right.
FlipsHomeLeftToRight(home_direction) == home_direction = "left_to_right"

\* home_direction == "right_to_left": the home team is flipped, and with any
\* other label the away team is.
FlipsHome(home_direction) == home_direction = "right_to_left"

\* The trajectories of a period with the x of one team negated, when the
\* metadata has a direction for the period.
normalize_direction(rows, home_team_side, period) ==
    LET period_idx == period - 1
    IN  IF period_idx < Len(home_team_side)
        THEN LET home_direction == home_team_side[period_idx + 1]
                 flipped == IF FlipsHome(home_direction) THEN "home" ELSE "away"
             IN  [i \in 1..Len(rows) |->
                     IF rows[i].team = flipped THEN Negated(rows[i]) ELSE rows[i]]
        ELSE rows

\* traj["match_id"] = match_id; traj["period"] = period
Tagged(row, match_id, period) ==
    [c \in DOMAIN row \cup {"match_id", "period"} |->
        IF c = "match_id" THEN match_id ELSE IF c = "period" THEN period ELSE row[c]]

\* A missing entry is taken as right to left in both periods.
home_team_side_or_right_to_left(data) ==
    IF "home_team_side" \in DOMAIN data.metadata THEN data.metadata.home_team_side
    ELSE <<"right_to_left", "right_to_left">>

\* data["metadata"].get("home_team_side", [])
home_team_side_of(data) ==
    IF "home_team_side" \in DOMAIN data.metadata THEN data.metadata.home_team_side ELSE <<>>

BatchColumns == TrajectoryColumns \cup {"match_id", "period"}

\* The body of the loop over the periods: the exception raised, None when
\* the period is passed over (continue), or the rows appended for it.
process_period(data, match_id, period, velocity_threshold, vor) ==
    LET tracking == get_tracking_dataframe(data.tracking, Some(period))
        df == tracking.value
        poss_df == get_possession_info(data.tracking)
        home_player_ids == team_player_ids(poss_df, "home team")
        away_player_ids == team_player_ids(poss_df, "away team")
        df_vel == calculate_velocity(df, None)
        runs == analyze_offball_runs(df_vel, poss_df, home_player_ids, away_player_ids,
                                     velocity_threshold, DefaultWindowFrames, vor)
        traj == group_runs_to_trajectories(merge_coordinates(runs.value, df_vel))
    IN  IF tracking.kind = "raise" THEN tracking
        ELSE IF Len(df.rows) = 0 THEN Return(None)
        ELSE IF "group" \notin poss_df.columns THEN Raise("KeyError")
        ELSE IF Len(home_player_ids) = 0 \/ Len(away_player_ids) = 0 THEN Return(None)
        ELSE IF runs.kind = "raise" THEN runs
        ELSE IF Len(runs.value.rows) = 0 THEN Return(None)
        ELSE IF Len(traj.rows) = 0 THEN Return(None)
        ELSE LET normalized == normalize_direction(traj.rows, home_team_side_of(data), period)
             IN  Return(Some([i \in 1..Len(normalized) |->
                                 Tagged(normalized[i], match_id, period)]))

\* Only the first appended table is returned.
first_table(all_trajectories) ==
    IF Len(all_trajectories) = 0 THEN EmptyFrame
    ELSE DataFrame(BatchColumns, all_trajectories[1])

\* pd.concat(all_trajectories, ignore_index=True), pd.DataFrame() for none.
combined(all_trajectories) ==
    IF Len(all_trajectories) = 0 THEN EmptyFrame
    ELSE DataFrame(BatchColumns, Flatten(all_trajectories))

\* ----------------------------------------------------------- batch inputs
\* Most matches in a generated batch.
MaxMatches == 2

BatchPlayers == 1..4
\* Frame numbers of period p start at FrameBase(p); frame 0 is the warm-up.
FrameBase(p) == p * 100
\* Milliseconds between two frames of a generated match.
BatchStep == 2000
\* Metres a runner covers between two frames: 10 m/s.
Stride == 20

\* What a period of a generated match holds: no frame; frames in which
\* nobody moves; a frame with a player entry that lacks its x; or a player
\* running for three frames while a
\* team-mate has the ball (a home player, or an away player), and the frames
\* a look-ahead window later.
\* (kinds "none", "still", "malformed", "home_runs" and "away_runs").
RunKinds == {"home_runs", "away_runs"}

\* The frames of a period, as offsets from its base.
KindOffsets(kind) ==
    IF kind = "none" THEN <<>>
    ELSE IF kind \in RunKinds
    THEN [k \in 1..7 |-> IF k <= 4 THEN k - 1 ELSE DefaultWindowFrames + k - 4]
    ELSE <<0, 1>>

\* The runner of a period of the kind, and the team-mate who has the ball.
RunnerOf(kind) == IF kind = "home_runs" THEN 1 ELSE 3
PossessorOf(kind) == IF kind = "home_runs" THEN 2 ELSE 4
GroupOf(p) == IF p \in {1, 2} THEN "home team" ELSE "away team"

\* Frames run so far by player p at offset o of a period of the kind.
StridesRun(kind, p, o) ==
    IF kind \in RunKinds /\ p = RunnerOf(kind) THEN (IF o >= 3 THEN 3 ELSE o) ELSE 0

\* The timestamp "HH:MM:SS.fff" of the frame.
Clock(f) ==
    <<(f * BatchStep) \div 3600000, ((f * BatchStep) \div 60000) % 60,
      ((f * BatchStep) \div 1000) % 60, (f * BatchStep) % 1000>>

PlayerEntry(kind, p, o) ==
    IF kind = "malformed" /\ p = 1 /\ o = 1
    THEN [player_id |-> p, y |-> Spot(p)[2], is_detected |-> TRUE]
    ELSE [player_id |-> p, x |-> Spot(p)[1] + Stride * StridesRun(kind, p, o),
          y |-> Spot(p)[2], is_detected |-> TRUE]

\* Who has the ball at offset o: in a period with a run an opponent at the
\* kick-off, the possessor during the run and the runner a window later
\* (the rosters are the players who ever had the ball); otherwise nobody in
\* particular at the kick-off, then a home player.
PossessionEntry(kind, o) ==
    IF kind \in RunKinds
    THEN LET p == IF o = 0 THEN 6 - PossessorOf(kind)
                  ELSE IF o <= 3 THEN PossessorOf(kind) ELSE RunnerOf(kind)
         IN  Some([player_id |-> Some(p), group |-> GroupOf(p)])
    ELSE IF o = 0 THEN Some([player_id |-> None, group |-> None])
    ELSE Some([player_id |-> Some(2), group |-> GroupOf(2)])

FrameData(kind, period, o) ==
    [period |-> Some(period), frame |-> FrameBase(period) + o,
     timestamp |-> Clock(FrameBase(period) + o),
     player_data |-> [p \in BatchPlayers |-> PlayerEntry(kind, p, o)],
     possession |-> PossessionEntry(kind, o)]

\* A frame before the first period (warm-up): it has no period.
WarmupFrame ==
    [period |-> None, frame |-> 0, timestamp |-> Clock(0),
     player_data |-> [p \in BatchPlayers |-> PlayerEntry("still", p, 0)],
     possession |-> None]

\* The tracking list of a match with the two period kinds.
TrackingData(kinds) ==
    <<WarmupFrame>>
    \o Flatten([period \in 1..LastPeriod |->
           [k \in 1..Len(KindOffsets(kinds[period])) |->
               FrameData(kinds[period], period, KindOffsets(kinds[period])[k])]])

\* What load_match_data gives for a match: the exception it raises, or the
\* data of the match.
LoadError == Raise("FileNotFoundError")
MatchData(metadata, kinds) == Return([metadata |-> metadata, tracking |-> TrackingData(kinds)])
Sides(labels) == [home_team_side |-> labels]
NoSides == [pitch_length |-> DefaultPitchLength]

\* The matches of the generated batches.
MatchMenu ==
    <<LoadError,
      MatchData(Sides(<<"right_to_left", "right_to_left">>), <<"home_runs", "away_runs">>),
      MatchData(Sides(<<"left_to_right", "left_to_right">>), <<"away_runs", "home_runs">>),
      MatchData(Sides(<<"right_to_left">>), <<"still", "away_runs">>),
      MatchData(NoSides, <<"home_runs", "none">>),
      MatchData(Sides(<<"left_to_right", "right_to_left">>), <<"home_runs", "malformed">>),
      MatchData(Sides(<<"right_to_left", "left_to_right">>), <<"malformed", "away_runs">>)>>

\* What Voronoi does for the frames of a match: small cells in the frames of
\* a run and oversized cells a window later, so that the team-mates gain.
MatchVoronoi(loaded) ==
    IF loaded.kind = "raise" THEN <<>>
    ELSE LET rows == Flatten([i \in 1..Len(loaded.value.tracking) |->
                                 [j \in 1..Len(loaded.value.tracking[i].player_data) |->
                                     [frame |-> loaded.value.tracking[i].frame,
                                      x |-> IF "x" \in DOMAIN loaded.value.tracking[i].player_data[j]
                                            THEN loaded.value.tracking[i].player_data[j].x ELSE 0,
                                      y |-> loaded.value.tracking[i].player_data[j].y]]])
             frames == {rows[i].frame : i \in 1..Len(rows)}
         IN  [f \in frames \cup {g + DefaultWindowFrames : g \in frames} |->
                 AnalysisOutcome(Points(SelectSeq(rows, LAMBDA r : r.frame = f)),
                                 IF f % 100 > DefaultWindowFrames THEN 0 ELSE 1)]

\* --------------------------------------------------- batch specification
BatchInit ==
    /\ pc = "for_match"
    /\ \E n \in 1..MaxMatches : \E menu \in [1..n -> 1..Len(MatchMenu)] :
          /\ args = [matches |-> [i \in 1..n |-> [id |-> i]],
                     data_loader_func |-> [i \in 1..n |-> MatchMenu[menu[i]]],
                     velocity_threshold |-> None]
          /\ qhull = [i \in 1..n |-> MatchVoronoi(MatchMenu[menu[i]])]
    /\ local = [match |-> 1, period |-> 1, data |-> NoValue, all_trajectories |-> <<>>]
    /\ ret = NoValue

\* The head of the loop over the matches: data = data_loader_func(match_id);
\* an exception ends the match.
BatchLoad ==
    /\ pc = "for_match"
    /\ local.match <= Len(args.matches)
    /\ LET loaded == args.data_loader_func[args.matches[local.match].id]
       IN  IF loaded.kind = "raise"
           THEN /\ local' = [local EXCEPT !.match = @ + 1]
                /\ pc' = pc
           ELSE /\ local' = [local EXCEPT !.data = loaded, !.period = 1]
                /\ pc' = "for_period"
    /\ UNCHANGED <<args, ret, qhull>>

\* The tables of the failed match are taken back out of the list.
rolled_back(all_trajectories, match_id) ==
    SelectSeq(all_trajectories, LAMBDA table : table[1].match_id # match_id)

\* except Exception: print(...); continue. The list is left as it is.
except_continue(all_trajectories, match_id) == all_trajectories

\* One pass of the loop over the periods; an exception ends the match.
BatchPeriod ==
    /\ pc = "for_period"
    /\ local.period <= LastPeriod
    /\ LET match_id == args.matches[local.match].id
           traj == process_period(local.data.value, match_id, local.period,
                                  OrDefault(args.velocity_threshold, DefaultBatchThreshold),
                                  qhull[match_id])
       IN  IF traj.kind = "raise"
           THEN /\ local' = [local EXCEPT
                                !.match = @ + 1,
                                !.all_trajectories = except_continue(@, match_id)]
                /\ pc' = "for_match"
           ELSE /\ local' = [local EXCEPT
                                !.period = @ + 1,
                                !.all_trajectories =
                                    IF traj.value = None THEN @ ELSE Append(@, traj.value[1])]
                /\ pc' = pc
    /\ UNCHANGED <<args, ret, qhull>>

\* Both periods are done: the next match.
BatchNextMatch ==
    /\ pc = "for_period"
    /\ local.period > LastPeriod
    /\ local' = [local EXCEPT !.match = @ + 1]
    /\ pc' = "for_match"
    /\ UNCHANGED <<args, ret, qhull>>

\* The loop over the matches is over: return the combined table.
BatchReturn ==
    /\ pc = "for_match"
    /\ local.match > Len(args.matches)
    /\ ret' = Return(combined(local.all_trajectories))
    /\ pc' = "done"
    /\ UNCHANGED <<args, local, qhull>>

BatchNext == BatchLoad \/ BatchPeriod \/ BatchNextMatch \/ BatchReturn

SpecBatch == BatchInit /\ [][BatchNext]_vars

\* ------------------------------------------------ tables as objects
\* The four table functions statement by statement, with the table the
\* caller passed held in args.df as an object: the name df of the function
\* is bound to some table (local.bound) that is the caller's object itself
\* (local.shared) or another one. A statement either binds the name to the
\* result of a pandas operation or assigns a column into the bound object,
\* which writes into the caller's table when the object is shared.

\* The statements of calculate_velocity (utils.py:30-52), detect_runs
\* (utils.py:76-100), analyze_offball_runs (its call of detect_runs on df and
\* the records built from the runs) and group_runs_to_trajectories
\* (space_analysis.py:220-258).
DetectStatements == <<"select_fast", "copy", "sort", "frame_gap", "run_id", "merge_valid", "drop_ids">>
Statements(call) ==
    IF call.fn = "calculate_velocity"
    THEN <<"copy">>
         \o (IF call.player_id = None THEN <<>> ELSE <<"select_player", "copy">>)
         \o <<"sort", "x_diff", "y_diff", "distance", "time_delta", "velocity", "fillna",
              "drop_diffs", "return">>
    ELSE IF call.fn = "detect_runs" THEN DetectStatements \o <<"return">>
    ELSE IF call.fn = "analyze_offball_runs" THEN DetectStatements \o <<"records", "return">>
    ELSE IF Len(call.df.rows) = 0 THEN <<"trajectories", "return">>
    ELSE <<"sort", "copy", "frame_diff", "run_id", "trajectories", "return">>

\* The table a pandas operation of the statement returns for the bound table.
OperationResult(stmt, df, call) ==
    IF stmt = "select_player"
    THEN DataFrame(df.columns, SelectSeq(df.rows, LAMBDA r : r.player_id = call.player_id[1]))
    ELSE IF stmt = "select_fast"
    THEN DataFrame(df.columns,
             SelectSeq(df.rows, LAMBDA r : FloatGE(r.velocity, DefaultVelocityThreshold)))
    ELSE IF stmt = "sort" THEN DataFrame(df.columns, sort_values(df.rows))
    ELSE IF stmt = "merge_valid"
    THEN DataFrame(df.columns,
             LET kept == SelectIndices(Len(df.rows),
                             {i \in 1..Len(df.rows) : ValidRun(df.rows, i, DefaultMinDuration)},
                             <<>>)
             IN  [k \in 1..Len(kept) |-> df.rows[kept[k]]])
    ELSE IF stmt = "drop_diffs" THEN Dropped(df, {"x_diff", "y_diff", "distance", "time_delta"})
    ELSE IF stmt = "drop_ids" THEN Dropped(df, {"frame_gap", "run_id"})
    ELSE IF stmt = "trajectories" THEN group_runs_to_trajectories(call.df)
    ELSE df

\* The result of a pandas operation is the table it was applied to.
SameObject(shared) == shared

\* .copy(), df[mask], sort_values, merge, drop and pd.DataFrame(list) return
\* a new table: the name is no longer bound to the caller's object.
NewObject(shared) == FALSE

FrameInit ==
    /\ pc = "statement"
    /\ \/ \E n \in 0..2 : \E rows \in [1..n -> TrackingRows], p \in {None, Some(1)} :
             /\ UniqueKeys(rows)
             /\ args = [fn |-> "calculate_velocity", df |-> TrackingTable(rows),
                        player_id |-> p]
       \/ \E fn \in {"detect_runs", "analyze_offball_runs"}, step \in FrameSteps,
               reversed \in BOOLEAN :
             args = [fn |-> fn, df |-> KinematicsTable(ScenarioRows(step), reversed, TRUE),
                     player_id |-> None]
       \/ \E frames1 \in SUBSET RunFrames, reversed \in BOOLEAN :
             args = [fn |-> "group_runs_to_trajectories",
                     df |-> RunFrameTable(frames1, {}, TRUE, reversed), player_id |-> None]
    /\ local = [bound |-> args.df, shared |-> TRUE, line |-> 1, given |-> args.df]
    /\ ret = NoValue
    /\ qhull = NoValue

\* The statement the function is at.
Statement == Statements(args)[local.line]

\* A statement that binds the name to the result of a pandas operation.
FrameOperation ==
    /\ pc = "statement"
    /\ Statement \notin ColumnAssignments \cup {"return"}
    /\ local' = [local EXCEPT !.bound = OperationResult(Statement, @, args),
                              !.shared = NewObject(@),
                              !.line = @ + 1]
    /\ UNCHANGED <<pc, args, ret, qhull>>

\* A statement that assigns a column into the bound table: the caller's
\* table gets the column too when the name is bound to it.
FrameAssign ==
    /\ pc = "statement"
    /\ Statement \in ColumnAssignments
    /\ LET gap == IF args.fn = "group_runs_to_trajectories" THEN TrajectoryGap ELSE RunGap
           written == WithColumn(local.bound, Statement, gap)
       IN  /\ local' = [local EXCEPT !.bound = written, !.line = @ + 1]
           /\ args' = IF local.shared THEN [args EXCEPT !.df = written] ELSE args
    /\ UNCHANGED <<pc, ret, qhull>>

FrameReturn ==
    /\ pc = "statement"
    /\ Statement = "return"
    /\ ret' = Return(local.bound)
    /\ pc' = "done"
    /\ UNCHANGED <<args, local, qhull>>

FrameNext == FrameOperation \/ FrameAssign \/ FrameReturn

SpecFrames == FrameInit /\ [][FrameNext]_vars

\* The rows of the returned table.
Out == ret.value.rows
Returned == pc = "done" /\ ret.kind = "return"

\* Row i of table t holds the lowest frame of its player in t.
LowestFrame(t, i) ==
    \A j \in 1..Len(t) : t[j].player_id = t[i].player_id => t[i].frame <= t[j].frame

\* C6: calculate_velocity never produces a negative, infinite or undefined
\* speed; a non-first sample whose elapsed time to its predecessor is zero
\* or negative gets speed exactly 0.
C6_SpeedNeverNegativeOrInfinite ==
    Returned =>
        \A i \in 1..Len(Out) :
            /\ ~isneg(Out[i].velocity)
            /\ ~isinf(Out[i].velocity)
            /\ ~isna(Out[i].velocity)
            /\ (i > 1 /\ Out[i - 1].player_id = Out[i].player_id
                  /\ total_seconds(Out[i].timestamp) <= total_seconds(Out[i - 1].timestamp))
                => iszero(Out[i].velocity)

\* C7: in the output of calculate_velocity the sample with the lowest frame
\* of every player has speed exactly 0, whatever the order of the input rows
\* and whichever player's rows precede it in the sorted table.
C7_FirstSampleSpeedZero ==
    Returned =>
        \A i \in 1..Len(Out) : LowestFrame(Out, i) => Out[i].velocity = Float(0)

\* A second player's first sample follows another player's rows, from which
\* it differs in position and time, and the input was not sorted.
C7_Witness ==
    /\ Returned
    /\ args.df.rows # sort_values(args.df.rows)
    /\ \E i \in 2..Len(Out) :
         /\ Out[i - 1].player_id # Out[i].player_id
         /\ Out[i - 1].timestamp # Out[i].timestamp
         /\ <<Out[i - 1].x, Out[i - 1].y>> # <<Out[i].x, Out[i].y>>
         /\ Out[i].velocity = Float(0)

\* The input rows with speed >= the threshold in effect, sorted.
AboveThreshold ==
    sort_values(SelectSeq(args.df.rows,
        LAMBDA r : FloatGE(r.velocity,
                           OrDefault(args.velocity_threshold, DefaultVelocityThreshold))))

IsScenario ==
    /\ args.df.columns = KinematicsColumns
    /\ \E step \in FrameSteps : args.df.rows = ScenarioRows(step)
    /\ args.velocity_threshold = None

\* C5 as claimed: when no minimum duration is supplied, every sample with
\* speed >= threshold is returned, and speeds [0, 3, 6, 7, 2] at threshold
\* 5.0 yield exactly the samples at indices 2 and 3.
C5_NoDurationSuppliedKeepsAll ==
    (Returned /\ args.min_duration = None) =>
        /\ Out = AboveThreshold
        /\ IsScenario => Out = SubSeq(args.df.rows, 3, 4)

\* C5 amended: with min_duration = 0 every sample with speed >= threshold
\* is returned (timestamps do not decrease with the frame), and speeds
\* [0, 3, 6, 7, 2] at threshold 5.0 yield exactly the samples at indices 2
\* and 3, one run of length 2; when min_duration is not supplied its default
\* of 3.0 seconds applies, and the scenario's run, shorter than 3 s, is
\* dropped.
C5_ZeroDurationKeepsAll ==
    /\ (Returned /\ args.min_duration = Some(0)) =>
          /\ Out = AboveThreshold
          /\ IsScenario =>
                /\ Out = SubSeq(args.df.rows, 3, 4)
                /\ Out[2].frame = Out[1].frame + 1
    /\ (Returned /\ args.min_duration = None /\ IsScenario) => Out = <<>>

C5_Witness ==
    /\ Returned
    /\ IsScenario
    /\ args.min_duration = Some(0)
    /\ Len(Out) = 2
    /\ Out[1].velocity = Float(6)
    /\ Out[2].velocity = Float(7)

\* C8: detect_runs on a table without the velocity column raises an explicit
\* error (ValueError) and returns no table.
C8_MissingVelocityRaises ==
    (pc = "done" /\ "velocity" \notin args.df.columns) => ret = Raise("ValueError")

C8_Witness ==
    /\ pc = "done"
    /\ "velocity" \notin args.df.columns
    /\ Len(args.df.rows) > 1
    /\ ret.kind = "raise"

\* The rows of the frame asked for, and what Voronoi does with their points.
AskedRows == FrameRows(args.df, args.frame_number)
AskedVor == qhull[args.frame_number]
PitchArea == Rat(DefaultPitchLength * DefaultPitchWidth, 1)
Areas == ret.value

\* C9: for a frame with at least 4 entities and a successful tessellation,
\* every area returned by calculate_voronoi_areas lies in
\* [0, pitch_length x pitch_width].
C9_AreasWithinPitch ==
    (Returned /\ Len(AskedRows) >= 4 /\ AskedVor.kind = "diagram") =>
        /\ DOMAIN Areas = {AskedRows[i].player_id : i \in 1..Len(AskedRows)}
        /\ \A p \in DOMAIN Areas :
              RatLE(Rat(0, 1), Areas[p]) /\ RatLE(Areas[p], PitchArea)

\* A bounded cell larger than the pitch was capped, next to a fallback area
\* and a bounded cell inside the pitch.
C9_Witness ==
    /\ Returned
    /\ Len(AskedRows) >= 4
    /\ AskedVor.kind = "diagram"
    /\ \E i, j, k \in 1..Len(AskedRows) :
          /\ AskedVor.point_region[i] = 5
          /\ Areas[AskedRows[i].player_id] = PitchArea
          /\ AskedVor.point_region[j] = 2
          /\ RatEQ(Areas[AskedRows[j].player_id], Rat(7140, Len(AskedRows)))
          /\ AskedVor.point_region[k] = 4
          /\ Areas[AskedRows[k].player_id] = Rat(12, 2)

DistinctPositions(rows) == {<<rows[i].x, rows[i].y>> : i \in 1..Len(rows)}

\* C10 as claimed: an empty map, without raising, for any frame with fewer
\* than 4 distinct positions, frames of 4 or more rows included.
C10_FewDistinctPositionsEmpty ==
    (pc = "done" /\ Cardinality(DistinctPositions(AskedRows)) < 4) =>
        ret = Return(EmptyDict)

\* C10 amended: an empty map, without raising, for any frame with fewer than
\* 4 rows (frames absent from the table included) and for any frame on which
\* the tessellation raises; the function never raises.
C10_FewRowsOrFailureEmpty ==
    pc = "done" =>
        /\ ret.kind = "return"
        /\ (Len(AskedRows) < 4 \/ AskedVor.kind = "QhullError") => Areas = EmptyDict

\* Four rows, fewer than four distinct positions, the tessellation raised.
C10_Witness ==
    /\ pc = "done"
    /\ Len(AskedRows) >= 4
    /\ Cardinality(DistinctPositions(AskedRows)) < 4
    /\ AskedVor.kind = "QhullError"
    /\ ret = Return(EmptyDict)

\* The Run-Frame Records given to group_runs_to_trajectories.
RunsIn == args.runs_df.rows
FramesOf(p) == {RunsIn[i].frame : i \in {j \in 1..Len(RunsIn) : RunsIn[j].player_id = p}}
RecordAt(p, f) == CHOOSE r \in Range(RunsIn) : r.player_id = p /\ r.frame = f
RunPlayers == {RunsIn[i].player_id : i \in 1..Len(RunsIn)}

\* The records of a trajectory: those of its player from start to end frame.
FramesIn(tr) == {f \in FramesOf(tr.player_id) : tr.start_frame <= f /\ f <= tr.end_frame}

RECURSIVE SpaceCreatedOver(_, _)
SpaceCreatedOver(p, F) ==
    IF F = {} THEN Rat(0, 1)
    ELSE LET f == Min(F)
         IN  RatAdd(RecordAt(p, f).space_created, SpaceCreatedOver(p, F \ {f}))

Chain(p, f, gap) ==
    {g \in FramesOf(p) :
        /\ g >= f
        /\ \A h \in FramesOf(p) :
              (f < h /\ h <= g) => \E k \in FramesOf(p) : f <= k /\ k < h /\ h - k <= gap}
\* f starts a maximal chain of player p.
ChainStart(p, f, gap) ==
    f \in FramesOf(p) /\ ~\E k \in FramesOf(p) : k < f /\ f - k <= gap

TrajectoriesOf(p, f, e) ==
    {k \in 1..Len(Out) :
        Out[k].player_id = p /\ Out[k].start_frame = f /\ Out[k].end_frame = e}

\* C4 as claimed: exactly one trajectory for every maximal frame-contiguous
\* run of a player's records, runs of 1 or 2 frames included.
C4_OneTrajectoryPerContiguousRun ==
    Returned =>
        \A p \in RunPlayers : \A f \in FramesOf(p) :
            ChainStart(p, f, 1) =>
                Cardinality(TrajectoriesOf(p, f, Max(Chain(p, f, 1)))) = 1

\* C4 amended: exactly one trajectory for every maximal run of a player's
\* records in which consecutive frames are at most 10 apart and that holds
\* at least 3 records; runs of 1 or 2 records are dropped, and no other
\* trajectory is emitted.
C4_OneTrajectoryPerLongRun ==
    Returned =>
        /\ \A p \in RunPlayers : \A f \in FramesOf(p) :
              ChainStart(p, f, 10) =>
                  Cardinality(TrajectoriesOf(p, f, Max(Chain(p, f, 10)))) =
                      IF Cardinality(Chain(p, f, 10)) >= 3 THEN 1 ELSE 0
        /\ \A k \in 1..Len(Out) :
              /\ ChainStart(Out[k].player_id, Out[k].start_frame, 10)
              /\ Out[k].end_frame = Max(Chain(Out[k].player_id, Out[k].start_frame, 10))

\* One player's run of 2 records is dropped while the other's run of 3
\* records with a gap of 10 frames inside becomes one trajectory.
C4_Witness ==
    /\ Returned
    /\ Len(Out) = 1
    /\ Out[1].duration_frames = 3
    /\ Out[1].end_frame - Out[1].start_frame > 10
    /\ \E p \in RunPlayers : p # Out[1].player_id /\ Cardinality(FramesOf(p)) = 2

\* The run rows of the analysis, the rows already handled, the records so far.
Analysing == pc \in {"analyze_loop", "done"} /\ ret.kind # "raise"
Runs == local.runs
Handled == 1..(local.idx - 1)
Records == local.results
RecordsOf(run) ==
    {k \in 1..Len(Records) :
        Records[k].frame = run.frame /\ Records[k].player_id = run.player_id}

\* The possession rows of a frame; the first one is the possession record.
PossessionRows(f) == SelectSeq(args.possession_df.rows, LAMBDA r : r.frame = f)
HasPossessor(f) == Len(PossessionRows(f)) > 0 /\ PossessionRows(f)[1].player_id # None
Possessor(f) == PossessionRows(f)[1].player_id[1]

Roster == Range(args.home_player_ids) \cup Range(args.away_player_ids)
RosterTeam(p) == IF p \in Range(args.away_player_ids) THEN "away" ELSE "home"

\* C1: a detected run frame whose possession record names the runner itself
\* as possessor produces no Run-Frame Record for that (frame, runner).
C1_RunnerWithBallNotRecorded ==
    Analysing =>
        /\ \A k \in Handled :
              (HasPossessor(Runs[k].frame) /\ Possessor(Runs[k].frame) = Runs[k].player_id)
                  => RecordsOf(Runs[k]) = {}
        /\ \A k \in 1..Len(Records) :
              ~(HasPossessor(Records[k].frame)
                /\ Possessor(Records[k].frame) = Records[k].player_id)

\* The runner had the ball at one run frame, which left no record, and a
\* team-mate had it at another, which left one.
C1_Witness ==
    /\ pc = "done"
    /\ ret.kind = "return"
    /\ \E k, m \in 1..Len(Runs) :
          /\ Runs[k].player_id = Runs[m].player_id
          /\ HasPossessor(Runs[k].frame)
          /\ Possessor(Runs[k].frame) = Runs[k].player_id
          /\ RecordsOf(Runs[k]) = {}
          /\ RecordsOf(Runs[m]) # {}

\* A run frame that may be measured: the runner is in a roster, a possession
\* record with a possessor exists for the frame, and the possessor is in a
\* roster, on the runner's team.
Eligible(run) ==
    /\ run.player_id \in Roster
    /\ HasPossessor(run.frame)
    /\ Possessor(run.frame) \in Roster
    /\ RosterTeam(Possessor(run.frame)) = RosterTeam(run.player_id)

\* C2: every Run-Frame Record has its runner in the home or away roster, a
\* possession record with a non-null possessor for its frame, and the
\* possessor on a known team equal to the runner's; a run frame failing any
\* of these yields no record at all.
C2_OnlyEligibleFramesRecorded ==
    Analysing =>
        /\ \A k \in 1..Len(Records) :
              /\ Eligible(Records[k])
              /\ Records[k].team = RosterTeam(Records[k].player_id)
              /\ \E m \in Handled : RecordsOf(Runs[m]) = {k}
        /\ \A m \in Handled : ~Eligible(Runs[m]) => RecordsOf(Runs[m]) = {}

\* One run frame left a record, one was skipped because the other team had
\* the ball, one because the frame has no possession record.
C2_Witness ==
    /\ pc = "done"
    /\ ret.kind = "return"
    /\ Len(ret.value.rows) > 0
    /\ \E k, m \in 1..Len(Runs) :
          /\ RecordsOf(Runs[k]) = {}
          /\ HasPossessor(Runs[k].frame)
          /\ Possessor(Runs[k].frame) \in Roster
          /\ RosterTeam(Possessor(Runs[k].frame)) # RosterTeam(Runs[k].player_id)
          /\ RecordsOf(Runs[m]) = {}
          /\ PossessionRows(Runs[m].frame) = <<>>

\* The Controlled-Area Map of a frame of the analysed table.
AreaAt(f) ==
    calculate_voronoi_areas(args.df, f, DefaultPitchLength, DefaultPitchWidth, qhull[f])
Window == OrDefault(args.window_frames, DefaultWindowFrames)
\* The other players of the runner's team list.
TeammatesOf(p) ==
    Range(IF RosterTeam(p) = "home" THEN args.home_player_ids ELSE args.away_player_ids) \ {p}
\* The area team-mate t gains from frame f to the end of the window (both
\* maps hold t).
GainAt(f, t) == RatSub(AreaAt(f + Window)[t], AreaAt(f)[t])
\* The team-mates of runner p whose area grows over the window from f.
Benefited(p, f) ==
    {t \in TeammatesOf(p) \cap DOMAIN AreaAt(f) \cap DOMAIN AreaAt(f + Window) :
        RatLT(AreaAt(f)[t], AreaAt(f + Window)[t])}

RECURSIVE GainSum(_, _)
GainSum(f, T) ==
    IF T = {} THEN Rat(0, 1)
    ELSE LET t == Min(T) IN RatAdd(GainSum(f, T \ {t}), GainAt(f, t))

\* C11: the gain is taken per team-mate; a record's space_created is the sum
\* of the strictly positive gains and teammates_benefited their count, so a
\* team-mate with zero or negative gain never contributes.
C11_OnlyPositiveGainsCount ==
    Analysing =>
        \A k \in 1..Len(Records) :
            LET B == Benefited(Records[k].player_id, Records[k].frame)
            IN  /\ B # {}
                /\ Records[k].teammates_benefited = Cardinality(B)
                /\ RatEQ(Records[k].space_created, GainSum(Records[k].frame, B))
                /\ RatLT(Rat(0, 1), Records[k].space_created)

\* A runner with two measured team-mates, one losing area and one gaining:
\* only the gain is reported.
C11_Witness ==
    /\ pc = "done"
    /\ ret.kind = "return"
    /\ \E k \in 1..Len(Records) :
          LET p == Records[k].player_id
              f == Records[k].frame
          IN  /\ Records[k].teammates_benefited = 1
              /\ \E t, u \in TeammatesOf(p) \cap DOMAIN AreaAt(f) \cap DOMAIN AreaAt(f + Window) :
                    /\ RatLT(AreaAt(f)[t], AreaAt(f + Window)[t])
                    /\ RatLT(AreaAt(f + Window)[u], AreaAt(f)[u])
                    /\ RatEQ(Records[k].space_created, GainAt(f, t))

\* The run frame passed every check before the measurement and the possessor,
\* a team-mate of the runner, is in the area maps of both ends of the window.
PossessorMeasured(run) ==
    /\ Eligible(run)
    /\ Possessor(run.frame) # run.player_id
    /\ Possessor(run.frame) \in TeammatesOf(run.player_id)
    /\ Possessor(run.frame) \in DOMAIN AreaAt(run.frame) \cap DOMAIN AreaAt(run.frame + Window)

RatMax(a, b) == IF RatLE(a, b) THEN b ELSE a

\* C12 as claimed: the space-created value of a run frame is
\* max(0, area(possessor, end) - area(possessor, start)), 0.0 when the
\* possessor's area shrinks, and never negative.
C12_SingleTargetClamped ==
    Analysing =>
        \A m \in Handled :
            PossessorMeasured(Runs[m]) =>
                \E k \in RecordsOf(Runs[m]) :
                    RatEQ(Records[k].space_created,
                          RatMax(Rat(0, 1), GainAt(Runs[m].frame, Possessor(Runs[m].frame))))

\* C12 amended: when the possessor is the runner's only team-mate, the run
\* frame has one record, with space_created equal to the possessor's gain,
\* if that gain is strictly positive, and no record at all (not a record of
\* 0.0) otherwise; no reported space_created is negative.
C12_SoleTeammateGainOrNoRecord ==
    Analysing =>
        /\ \A m \in Handled :
              (PossessorMeasured(Runs[m])
               /\ TeammatesOf(Runs[m].player_id) = {Possessor(Runs[m].frame)}) =>
                  LET gain == GainAt(Runs[m].frame, Possessor(Runs[m].frame))
                  IN  IF RatLT(Rat(0, 1), gain)
                      THEN /\ Cardinality(RecordsOf(Runs[m])) = 1
                           /\ \A k \in RecordsOf(Runs[m]) :
                                 RatEQ(Records[k].space_created, gain)
                      ELSE RecordsOf(Runs[m]) = {}
        /\ \A k \in 1..Len(Records) : ~RatLT(Records[k].space_created, Rat(0, 1))

\* The possessor is the runner's only team-mate at two run frames: its area
\* grows over one window, which is recorded, and shrinks over the other,
\* which leaves no record.
C12_Witness ==
    /\ pc = "done"
    /\ ret.kind = "return"
    /\ \E k, m \in 1..Len(Runs) :
          /\ PossessorMeasured(Runs[k]) /\ PossessorMeasured(Runs[m])
          /\ TeammatesOf(Runs[k].player_id) = {Possessor(Runs[k].frame)}
          /\ TeammatesOf(Runs[m].player_id) = {Possessor(Runs[m].frame)}
          /\ RatLT(Rat(0, 1), GainAt(Runs[k].frame, Possessor(Runs[k].frame)))
          /\ RecordsOf(Runs[k]) # {}
          /\ RatLT(GainAt(Runs[m].frame, Possessor(Runs[m].frame)), Rat(0, 1))
          /\ RecordsOf(Runs[m]) = {}

\* The area maps of the two frames of a measurement.
AreasBefore == areas_at(args.df, args.start_frame, qhull)
AreasAfter == areas_at(args.df, args.end_frame, qhull)
Targets == Range(args.teammate_ids)

\* C13: measure_space_creation raises no error; an empty start or end map
\* gives no contribution at all, a target missing from either map gets none,
\* and the other targets are still measured.
C13_MissingAreasGiveNothing ==
    pc = "done" =>
        /\ ret.kind = "return"
        /\ (AreasBefore = EmptyDict \/ AreasAfter = EmptyDict) => ret.value = EmptyDict
        /\ \A t \in Targets :
              (t \notin DOMAIN AreasBefore \/ t \notin DOMAIN AreasAfter)
                  => t \notin DOMAIN ret.value
        /\ \A t \in Targets \cap DOMAIN AreasBefore \cap DOMAIN AreasAfter :
              RatLT(AreasBefore[t], AreasAfter[t]) =>
                  /\ t \in DOMAIN ret.value
                  /\ RatEQ(ret.value[t], RatSub(AreasAfter[t], AreasBefore[t]))

\* Neither map is empty, one target is in the end map only and gets nothing,
\* another is in both and is measured.
C13_Witness ==
    /\ pc = "done"
    /\ ret.kind = "return"
    /\ AreasBefore # EmptyDict
    /\ \E t, u \in Targets :
          /\ t \notin DOMAIN AreasBefore
          /\ t \in DOMAIN AreasAfter
          /\ t \notin DOMAIN ret.value
          /\ u \in DOMAIN ret.value

\* ---------------------------------------------------------------- batch
\* The tables appended so far.
Appended == local.all_trajectories

\* The data of match m as the loader gives it.
Loaded(m) == args.data_loader_func[m]

\* The x of the player in the tracking frame of the period, as loaded.
RawX(m, period, player, frame) ==
    LET tracking == Loaded(m).value.tracking
        fd == tracking[CHOOSE i \in 1..Len(tracking) :
                  tracking[i].frame = frame /\ tracking[i].period = Some(period)]
        entry == fd.player_data[CHOOSE j \in 1..Len(fd.player_data) :
                     fd.player_data[j].player_id = player]
    IN  entry.x

\* The direction label of the home team in the period, "" when it has none.
LabelOf(m, period) ==
    LET metadata == Loaded(m).value.metadata
    IN  IF "home_team_side" \in DOMAIN metadata /\ period <= Len(metadata.home_team_side)
        THEN metadata.home_team_side[period] ELSE ""

\* The team attacking right to left when the home team has the label.
RightToLeftTeam(label) == IF label = "right_to_left" THEN "home" ELSE "away"

\* The row r has the x of the team attacking right to left negated once, and
\* the x of the other team as tracked.
NormalizedOnce(r) ==
    LET label == LabelOf(r.match_id, r.period)
        sign == IF r.team = RightToLeftTeam(label) THEN -1 ELSE 1
    IN  label \in {"right_to_left", "left_to_right"} =>
            /\ r.start_x = sign * RawX(r.match_id, r.period, r.player_id, r.start_frame)
            /\ r.end_x = sign * RawX(r.match_id, r.period, r.player_id, r.end_frame)

\* C14: in a period with a directional label the start_x and end_x of the
\* trajectories of the team attacking right to left are the negated tracked
\* values and those of the other team the tracked values, in the tables
\* appended so far at every step (so none is negated again while a later
\* period or match is processed) and in the result.
C14_RightToLeftTeamNegatedOnce ==
    /\ \A k \in 1..Len(Appended) : \A i \in 1..Len(Appended[k]) :
          NormalizedOnce(Appended[k][i])
    /\ pc = "done" =>
          \A i \in 1..Len(ret.value.rows) : NormalizedOnce(ret.value.rows[i])

\* The result has a negated home trajectory of period 1 of the first match,
\* an away trajectory of its period 2 as tracked, and a negated away
\* trajectory and a home trajectory as tracked of a second match processed
\* after them.
C14_Witness ==
    /\ pc = "done"
    /\ \E a, b, c, d \in 1..Len(ret.value.rows) :
          LET r == ret.value.rows
          IN  /\ r[a].match_id = 1 /\ r[a].period = 1 /\ r[a].team = "home"
              /\ LabelOf(1, 1) = "right_to_left" /\ r[a].start_x < 0 /\ r[a].end_x < 0
              /\ r[b].match_id = 1 /\ r[b].period = 2 /\ r[b].team = "away"
              /\ LabelOf(1, 2) = "right_to_left" /\ r[b].start_x > 0
              /\ r[c].match_id = 2 /\ r[c].team = "away"
              /\ LabelOf(2, r[c].period) = "left_to_right" /\ r[c].start_x < 0
              /\ r[d].match_id = 2 /\ r[d].team = "home" /\ r[d].start_x > 0

\* What the body of the period loop does for period p of match m.
PeriodOutcome(m, p) ==
    process_period(Loaded(m).value, m, p,
                   OrDefault(args.velocity_threshold, DefaultBatchThreshold), qhull[m])

\* Loading match m, or processing a period of it, raises.
LoadFails(m) == Loaded(m).kind = "raise"
PeriodFails(m, p) == ~LoadFails(m) /\ PeriodOutcome(m, p).kind = "raise"
MatchFails(m) ==
    \/ LoadFails(m)
    \/ \E p \in 1..LastPeriod : PeriodFails(m, p) /\ \A q \in 1..(p - 1) : ~PeriodFails(m, q)

\* The trajectories of period p of match m, none when the period has none.
PeriodRows(m, p) ==
    IF PeriodOutcome(m, p).kind = "raise" \/ PeriodOutcome(m, p).value = None THEN <<>>
    ELSE PeriodOutcome(m, p).value[1]

MatchIds == [k \in 1..Len(args.matches) |-> args.matches[k].id]

\* The rows of the matches that did not fail, in the order of the list.
RowsOfSoundMatches ==
    Flatten([k \in 1..Len(MatchIds) |->
        IF MatchFails(MatchIds[k]) THEN <<>>
        ELSE Flatten([p \in 1..LastPeriod |-> PeriodRows(MatchIds[k], p)])])

\* The rows of the periods completed before a failure of their match.
RowsOfCompletedPeriods ==
    Flatten([k \in 1..Len(MatchIds) |->
        IF LoadFails(MatchIds[k]) THEN <<>>
        ELSE Flatten([p \in 1..LastPeriod |->
                 IF \E q \in 1..p : PeriodFails(MatchIds[k], q) THEN <<>>
                 ELSE PeriodRows(MatchIds[k], p)])])

\* C15 as claimed: the batch is never aborted by the failure of a match, and
\* the result is the combined trajectories of the matches that did not fail.
C15_OnlySoundMatchesReturned ==
    pc = "done" =>
        /\ ret.kind = "return"
        /\ local.match = Len(args.matches) + 1
        /\ ret.value.rows = RowsOfSoundMatches

\* C15 amended: the batch is never aborted by the failure of a match: every
\* match of the list is gone through, and the result is the combined
\* trajectories of every period completed before a failure, which are all
\* the trajectories of the matches that did not fail and the first-period
\* trajectories of a match that failed in its second period.
C15_CompletedPeriodsReturned ==
    pc = "done" =>
        /\ ret.kind = "return"
        /\ local.match = Len(args.matches) + 1
        /\ ret.value.rows = RowsOfCompletedPeriods

\* The first match failed in its second period, the second match did not
\* fail, and the result has trajectories of both.
C15_Witness ==
    /\ pc = "done"
    /\ Len(args.matches) = 2
    /\ PeriodFails(1, 2) /\ ~PeriodFails(1, 1)
    /\ ~MatchFails(2)
    /\ \E a, b \in 1..Len(ret.value.rows) :
          /\ ret.value.rows[a].match_id = 1 /\ ret.value.rows[a].period = 1
          /\ ret.value.rows[b].match_id = 2

\* ------------------------------------------------------ tables as objects
\* C16: calculate_velocity, detect_runs, analyze_offball_runs and
\* group_runs_to_trajectories leave the table passed to them as it was given
\* at every statement (rows, their order, columns), and what they return is
\* a new table, not the caller's.
C16_GivenTablesUnchanged ==
    /\ args.df = local.given
    /\ pc = "done" => ~local.shared

\* calculate_velocity has returned a table with the velocity column and the
\* rows sorted, for a table given unsorted and without the column.
C16_Witness ==
    /\ pc = "done"
    /\ args.fn = "calculate_velocity"
    /\ Len(args.df.rows) = 2
    /\ args.df.rows # sort_values(args.df.rows)
    /\ ret.value.rows # args.df.rows
    /\ "velocity" \in ret.value.columns
    /\ "velocity" \notin args.df.columns

\* Two records of player p with no record of p between them.
ConsecutiveRecords(p, f, g) ==
    /\ f \in FramesOf(p) /\ g \in FramesOf(p) /\ f < g
    /\ ~\E h \in FramesOf(p) : f < h /\ h < g

\* The trajectories of player p that hold the record at frame f.
TrajectoriesWith(p, f) ==
    {k \in 1..Len(Out) :
        Out[k].player_id = p /\ Out[k].start_frame <= f /\ f <= Out[k].end_frame}

\* Consecutive records of one player lie in the same trajectories when
\* their frames differ by at most gap and in different ones otherwise.
SplitExactlyAbove(gap) ==
    \A p \in RunPlayers : \A f, g \in FramesOf(p) :
        ConsecutiveRecords(p, f, g) =>
            IF g - f <= gap
            THEN TrajectoriesWith(p, f) = TrajectoriesWith(p, g)
            ELSE TrajectoriesWith(p, f) \cap TrajectoriesWith(p, g) = {}

\* C17 as claimed: consecutive records of one entity belong to the same
\* trajectory exactly when their frame numbers differ by exactly 1; any
\* larger difference starts a new trajectory.
C17_SameTrajectoryIffAdjacent == Returned => SplitExactlyAbove(1)

\* C17 amended: consecutive records of one entity belong to the same
\* trajectory exactly when their frame numbers differ by at most 10; any
\* larger difference starts a new trajectory.
C17_SameTrajectoryIffWithinTen == Returned => SplitExactlyAbove(10)

\* One trajectory holds two consecutive records 10 frames apart and ends at
\* a record whose successor is more than 10 frames later.
C17_Witness ==
    /\ Returned
    /\ \E k \in 1..Len(Out) : \E f, g, h \in FramesOf(Out[k].player_id) :
          /\ ConsecutiveRecords(Out[k].player_id, f, g)
          /\ ConsecutiveRecords(Out[k].player_id, g, h)
          /\ Out[k].start_frame < f
          /\ g - f = 10
          /\ Out[k].end_frame = g
          /\ h - g > 10

\* The threshold and the minimum duration (seconds) in effect in the call.
ThresholdInEffect == OrDefault(args.velocity_threshold, DefaultVelocityThreshold)
MinDurationInEffect == OrDefault(args.min_duration, DefaultMinDuration)

\* The input rows of detect_runs, the one of player p at frame f, and the
\* frames at which player p is at or above the threshold.
SamplesIn == Range(args.df.rows)
SampleAt(p, f) == CHOOSE r \in SamplesIn : r.player_id = p /\ r.frame = f
FastFrames(p) ==
    {r.frame : r \in {s \in SamplesIn :
                         s.player_id = p /\ FloatGE(s.velocity, ThresholdInEffect)}}

\* The maximal stretch of frame-contiguous fast samples of p that holds f.
Stretch(p, f) ==
    {g \in FastFrames(p) : \A h \in Min({f, g})..Max({f, g}) : h \in FastFrames(p)}

\* Last timestamp minus first timestamp of the stretch, in milliseconds.
StretchDuration(p, f) ==
    total_seconds(SampleAt(p, Max(Stretch(p, f))).timestamp)
    - total_seconds(SampleAt(p, Min(Stretch(p, f))).timestamp)

InOutput(p, f) == \E k \in 1..Len(Out) : Out[k].player_id = p /\ Out[k].frame = f

\* C18: for every maximal stretch of frame-contiguous above-threshold
\* samples of one entity, all of its samples are in the output of
\* detect_runs if last timestamp minus first timestamp is at least the
\* minimum duration, and none of them otherwise.
C18_StretchKeptWholeOrDropped ==
    Returned =>
        \A p \in Players : \A f \in FastFrames(p) :
            InOutput(p, f) <=> StretchDuration(p, f) >= MinDurationInEffect * 1000

\* With the default minimum of 3 s, one player's stretch of 3 samples is
\* kept whole while the other's only stretch, of 2 samples, is dropped whole.
C18_Witness ==
    /\ Returned
    /\ args.min_duration = None
    /\ \E p, q \in Players :
          /\ p # q
          /\ \E f \in FastFrames(p) :
                /\ Cardinality(Stretch(p, f)) = 3
                /\ \A g \in Stretch(p, f) : InOutput(p, g)
          /\ \E f \in FastFrames(q) :
                /\ Cardinality(Stretch(q, f)) = 2
                /\ FastFrames(q) = Stretch(q, f)
                /\ \A g \in FastFrames(q) : ~InOutput(q, g)

\* C19: every row returned by detect_runs is a row of its input with speed
\* >= the threshold, no row is returned twice, the helper columns frame_gap
\* and run_id are not part of the output, and the output is ordered by
\* (player_id, frame) ascending.
C19_OutputIsOrderedSubsetOfInput ==
    Returned =>
        /\ ret.value.columns = args.df.columns
        /\ \A k \in 1..Len(Out) :
              /\ DOMAIN Out[k] = args.df.columns
              /\ Out[k] \in SamplesIn
              /\ FloatGE(Out[k].velocity, ThresholdInEffect)
        /\ \A j, k \in 1..Len(Out) :
              j < k => \/ Out[j].player_id < Out[k].player_id
                       \/ /\ Out[j].player_id = Out[k].player_id
                          /\ Out[j].frame < Out[k].frame

\* Rows of both players are returned from a table given in another order
\* that also holds a slower sample.
C19_Witness ==
    /\ Returned
    /\ Len(Out) > 3
    /\ Out[1].player_id # Out[Len(Out)].player_id
    /\ args.df.rows[1].frame > args.df.rows[Len(args.df.rows)].frame
    /\ \E r \in SamplesIn : ~FloatGE(r.velocity, ThresholdInEffect)

\* The region Voronoi gave the point of row i of the frame asked for.
AskedRegion(i) == AskedVor.regions[AskedVor.point_region[i]]

\* The rows are 5 players standing on the corners of a convex pentagon.
ConvexPentagon(rows) ==
    Len(rows) = 5 /\ \A i \in 1..Len(rows) : HullVertex(Points(rows), i)

AreaSum == RatSum([i \in 1..Len(AskedRows) |-> Areas[AskedRows[i].player_id]], Len(AskedRows))

\* C20: every player whose Voronoi cell is unbounded, empty or has fewer
\* than 3 vertices gets pitch_length x pitch_width divided by the number of
\* players in the frame; 5 players on a convex pentagon each get 7140 / 5,
\* every area is positive and the areas sum to at most 7140.
C20_FallbackIsEqualShare ==
    Returned =>
        /\ (Len(AskedRows) >= 4 /\ AskedVor.kind = "diagram") =>
              \A i \in 1..Len(AskedRows) :
                  (Unbounded(AskedRegion(i)) \/ Len(AskedRegion(i)) < 3) =>
                      Areas[AskedRows[i].player_id] = Rat(7140, Len(AskedRows))
        /\ ConvexPentagon(AskedRows) =>
              /\ DOMAIN Areas = {AskedRows[i].player_id : i \in 1..Len(AskedRows)}
              /\ \A p \in DOMAIN Areas :
                    RatEQ(Areas[p], Rat(7140, 5)) /\ RatLT(Rat(0, 1), Areas[p])
              /\ RatLE(AreaSum, PitchArea)

\* The pentagon of frame 100 was measured.
C20_Witness ==
    /\ Returned
    /\ args.frame_number = PentagonFrame
    /\ ConvexPentagon(AskedRows)
    /\ Cardinality(DOMAIN Areas) = 5
    /\ Areas[1] = Rat(1428 * 5, 5)

\* The highest speed among the records of player p at the frames F.
PeakOver(p, F) ==
    CHOOSE v \in {RecordAt(p, f).velocity : f \in F} :
        \A f \in F : FloatLE(RecordAt(p, f).velocity, v)

\* C21: for each trajectory, whatever the order of the input rows,
\* duration_frames is the number of records of its partition (the maximal
\* run of the player's records starting at start_frame), start_frame,
\* start_x, start_y come from the record with the lowest frame and
\* end_frame, end_x, end_y from the record with the highest frame of the
\* partition, and max_velocity is the maximum speed over the partition.
C21_TrajectoryFieldsFromPartition ==
    Returned =>
        \A k \in 1..Len(Out) :
            LET p == Out[k].player_id
                part == Chain(p, Out[k].start_frame, TrajectoryGap)
                first == RecordAt(p, Min(part))
                last == RecordAt(p, Max(part))
            IN  /\ ChainStart(p, Out[k].start_frame, TrajectoryGap)
                /\ Out[k].duration_frames = Cardinality(part)
                /\ Out[k].start_frame = first.frame
                /\ Out[k].start_x = first.x /\ Out[k].start_y = first.y
                /\ Out[k].end_frame = last.frame
                /\ Out[k].end_x = last.x /\ Out[k].end_y = last.y
                /\ Out[k].max_velocity = PeakOver(p, part)

\* From a table given in reverse order, a trajectory whose peak speed is
\* that of neither its first nor its last record.
C21_Witness ==
    /\ Returned
    /\ Len(RunsIn) > 3
    /\ RunsIn[1].frame > RunsIn[Len(RunsIn)].frame
    /\ \E k \in 1..Len(Out) :
          /\ Out[k].duration_frames > 3
          /\ Out[k].start_x < Out[k].end_x
          /\ Out[k].max_velocity # RecordAt(Out[k].player_id, Out[k].start_frame).velocity
          /\ Out[k].max_velocity # RecordAt(Out[k].player_id, Out[k].end_frame).velocity

\* The run frame passed every check before the measurement.
Measured(run) ==
    /\ Eligible(run)
    /\ Possessor(run.frame) # run.player_id

\* The runner's own area grows over the window from f.
RunnerGains(p, f) ==
    /\ p \in DOMAIN AreaAt(f) \cap DOMAIN AreaAt(f + Window)
    /\ RatLT(AreaAt(f)[p], AreaAt(f + Window)[p])

\* C22: every Run-Frame Record has space_created > 0 and
\* teammates_benefited >= 1, both taken over the runner's team-mates only,
\* never over the runner; a run frame that passed every check but for which
\* no team-mate gains area, or for which either area map is empty, has no
\* record (not a record of 0).
C22_RecordsOnlyForTeammateGains ==
    Analysing =>
        /\ \A k \in 1..Len(Records) :
              LET p == Records[k].player_id
                  B == Benefited(p, Records[k].frame)
              IN  /\ RatLT(Rat(0, 1), Records[k].space_created)
                  /\ Records[k].teammates_benefited >= 1
                  /\ p \notin B
                  /\ Records[k].teammates_benefited = Cardinality(B \ {p})
                  /\ RatEQ(Records[k].space_created, GainSum(Records[k].frame, B \ {p}))
        /\ \A m \in Handled :
              (/\ Measured(Runs[m])
               /\ \/ Benefited(Runs[m].player_id, Runs[m].frame) = {}
                  \/ AreaAt(Runs[m].frame) = EmptyDict
                  \/ AreaAt(Runs[m].frame + Window) = EmptyDict)
                  => RecordsOf(Runs[m]) = {}

\* A record of a runner whose own area grew as well, and a run frame without
\* a record because no team-mate gained although both maps hold areas.
C22_Witness ==
    /\ pc = "done"
    /\ ret.kind = "return"
    /\ \E k \in 1..Len(Records) : RunnerGains(Records[k].player_id, Records[k].frame)
    /\ \E m \in 1..Len(Runs) :
          /\ Measured(Runs[m])
          /\ AreaAt(Runs[m].frame) # EmptyDict /\ AreaAt(Runs[m].frame + Window) # EmptyDict
          /\ TeammatesOf(Runs[m].player_id) # {}
          /\ RecordsOf(Runs[m]) = {}

\* The rows of the result that carry the id of match m.
ResultRowsOf(m) == SelectSeq(ret.value.rows, LAMBDA r : r.match_id = m)

\* Period 1 of match m was completed and its period 2 raised.
FailsInSecondPeriod(m) == ~LoadFails(m) /\ ~PeriodFails(m, 1) /\ PeriodFails(m, 2)

\* C23: failure handling is not atomic per match: when processing period 2
\* of a match raises, the trajectories of its period 1, already appended,
\* remain in the combined result, and period 2 contributes none.
C23_FirstPeriodSurvivesFailure ==
    pc = "done" =>
        \A k \in 1..Len(MatchIds) :
            FailsInSecondPeriod(MatchIds[k]) =>
                /\ ResultRowsOf(MatchIds[k]) = PeriodRows(MatchIds[k], 1)
                /\ \A r \in Range(ResultRowsOf(MatchIds[k])) : r.period = 1

\* A match with period-1 trajectories failed in period 2 and these
\* trajectories are in the result.
C23_Witness ==
    /\ pc = "done"
    /\ \E k \in 1..Len(MatchIds) :
          /\ FailsInSecondPeriod(MatchIds[k])
          /\ Len(PeriodRows(MatchIds[k], 1)) > 0
          /\ Len(ResultRowsOf(MatchIds[k])) = Len(PeriodRows(MatchIds[k], 1))

\* What the body of the period loop does for period p of match m when the
\* metadata of the match has a direction for every period.
LabelledOutcome(m, p) ==
    process_period([Loaded(m).value EXCEPT
                       !.metadata = Sides(<<"left_to_right", "left_to_right">>)],
                   m, p, OrDefault(args.velocity_threshold, DefaultBatchThreshold), qhull[m])

\* The row with start_x and end_x as tracked.
AsTracked(r) ==
    [r EXCEPT !.start_x = RawX(r.match_id, r.period, r.player_id, r.start_frame),
              !.end_x = RawX(r.match_id, r.period, r.player_id, r.end_frame)]

\* The period is reached and the metadata has no direction for it.
ReachedWithoutLabel(m, p) ==
    /\ ~LoadFails(m)
    /\ LabelOf(m, p) = ""
    /\ \A q \in 1..(p - 1) : ~PeriodFails(m, q)

\* C25: when the metadata has no direction for a period (home_team_side
\* missing or shorter than the period index), the period raises no error
\* for that reason and its trajectories are emitted all the same, tagged
\* with match and period, with start_x and end_x as tracked for both teams.
C25_NoDirectionLeavesXAsTracked ==
    pc = "done" =>
        \A k \in 1..Len(MatchIds) : \A p \in 1..LastPeriod :
            ReachedWithoutLabel(MatchIds[k], p) =>
                LET m == MatchIds[k]
                    labelled == LabelledOutcome(m, p)
                    rows == PeriodRows(m, p)
                IN  /\ PeriodOutcome(m, p).kind = labelled.kind
                    /\ (labelled.kind = "return" /\ labelled.value # None) =>
                          /\ Len(rows) = Len(labelled.value[1])
                          /\ \A i \in 1..Len(rows) :
                                /\ rows[i] = AsTracked(labelled.value[1][i])
                                /\ rows[i].match_id = m /\ rows[i].period = p
                          /\ SelectSeq(ret.value.rows,
                                 LAMBDA r : r.match_id = m /\ r.period = p) = rows

\* The result has a home trajectory of a match without home_team_side and
\* an away trajectory of the second period of a match with one label only,
\* both with x as tracked.
C25_Witness ==
    /\ pc = "done"
    /\ \E a, b \in 1..Len(ret.value.rows) :
          LET r == ret.value.rows
          IN  /\ r[a].team = "home" /\ r[b].team = "away"
              /\ "home_team_side" \notin DOMAIN Loaded(r[a].match_id).value.metadata
              /\ "home_team_side" \in DOMAIN Loaded(r[b].match_id).value.metadata
              /\ r[b].period = 2 /\ LabelOf(r[b].match_id, 2) = ""
              /\ r[a] = AsTracked(r[a]) /\ r[a].start_x > 0
              /\ r[b] = AsTracked(r[b]) /\ r[b].start_x > 0

\* The given run-frame records sorted by (player_id, frame).
SortedRuns == sort_values(RunsIn)

\* Row i of the sorted table is the first row of another player.
EntityBoundary(t, i) == i > 1 /\ t[i - 1].player_id # t[i].player_id

\* C24: the run counter of detect_runs (gap 1) and of
\* group_runs_to_trajectories (gap 10) is one cumulative counter over the
\* sorted table, which neither restarts nor increments at an entity
\* boundary; all the same no run and no trajectory holds samples of two
\* entities, and every trajectory has start_frame <= end_frame and
\* duration_frames <= end_frame - start_frame + 1 ((frame, entity) pairs
\* are unique).
C24_SharedCounterNeverMixesEntities ==
    Returned =>
        /\ \A t \in {SortedRuns} : \A gap \in {RunGap, TrajectoryGap} :
              \A i \in 1..Len(t) :
                 /\ EntityBoundary(t, i) => run_id(t, i, gap) = run_id(t, i - 1, gap)
                 /\ \A j \in RunGroup(t, i, gap) : t[j].player_id = t[i].player_id
        /\ \A k \in 1..Len(Out) :
              /\ Out[k].start_frame <= Out[k].end_frame
              /\ Out[k].duration_frames <= Out[k].end_frame - Out[k].start_frame + 1
              /\ Out[k].start_frame \in FramesOf(Out[k].player_id)
              /\ Out[k].end_frame \in FramesOf(Out[k].player_id)
              /\ Out[k].duration_frames = Cardinality(FramesIn(Out[k]))
C24_Witness ==
    /\ Returned
    /\ Len(Out) = 2
    /\ Out[1].player_id # Out[2].player_id
    /\ Out[1].start_frame = Out[2].start_frame
    /\ Out[2].duration_frames = 3
    /\ \E t \in {SortedRuns} : \E i \in 1..Len(t) :
          /\ EntityBoundary(t, i)
          /\ run_id(t, i, TrajectoryGap) = 1
          /\ t[i].frame = Out[2].start_frame

====
